---- MODULE Spec2Model ----
(***************************************************************************)
(* Risk scoring, rule-based triage, the evaluation harness, the audit log  *)
(* and the review UI of the insurance claims agent (tools.py, agent.py,    *)
(* evaluation.py, logger.py, streamlit_app.py, config.py).                 *)
(*                                                                         *)
(* Conventions                                                             *)
(*  - An optional Python value is a sequence: <<>> is None (or "no value   *)
(*    yet"), <<v>> is the value v.                                         *)
(*  - A Python float that takes part in the scoring sum is an IEEE-754     *)
(*    double, kept exactly as [hi, lo] with value (hi * 2^29 + lo) * 2^-57 *)
(*    (every double in [2^-5, 2) is a whole number of 2^-57 units).        *)
(*  - The score that calculate_risk_score returns is round(score, 3); it   *)
(*    is kept as the integer k of thousandths and stands for the double    *)
(*    nearest to k/1000.  Comparing two such doubles is comparing their k. *)
(*  - Money amounts are whole dollars.                                     *)
(*  - An evaluation metric (accuracy, weighted F1, the composite score of  *)
(*    compare_systems) is the exact fraction [num, den].  The doubles the  *)
(*    code computes are ordered as these fractions are; two composites     *)
(*    that are equal as fractions are equal as doubles for batches of up   *)
(*    to two claims, and can differ in the last bit for larger batches.    *)
(***************************************************************************)
EXTENDS Integers, Sequences, FiniteSets, TLC

VARIABLES
    risk_factors,   \* RiskScoringTool.risk_factors: the weight table
    config,         \* config.RISK_THRESHOLD_HIGH / RISK_THRESHOLD_MEDIUM
    policies_df,    \* PolicyLookupTool.policies_df: policy_id -> coverage_limit
    claim,          \* the claim handed to RuleBasedSystem.process_claim
    risk_result,    \* <<>> or <<the dict calculate_risk_score returned>>
    risk_score,     \* <<>> or <<risk_result["risk_score"]>> (thousandths)
    decision,       \* <<>> or <<the dict process_claim returned>>
    prev,           \* which input the last call raised, and the score before
    test_claims,    \* evaluate_all_systems: the batch of claims
    pending,        \* the systems of self.systems still to evaluate, in order
    system_name,    \* the system evaluate_system is running on, "" when none
    idx,            \* evaluate_system: how many claims the loop has gone through
    predictions,    \* evaluate_system: predictions
    processing_times, \* evaluate_system: processing_times
    calls,          \* what each process_claim call of the running loop did
    results,        \* evaluate_all_systems: results, system name -> metrics
    agent_log,      \* InsuranceClaimsAgent.logger.log_entries
    log_entries,    \* ClaimsLogger.log_entries
    log_file,       \* <<>> or <<the entries save_log wrote to log_file>>
    last_op,        \* the last ClaimsLogger operation and what it returned
    decisions_log,  \* the file at config.DECISIONS_LOG_PATH: <<>> when missing
    writers,        \* the TriageLoggerTool instances: where each stands
    logged,         \* the claim ids whose log_decision returned "logged"
    agent_pc,       \* where the agent loop of process_claim stands
    rounds,         \* the tool-invocation rounds of the running agent loop
    agent_result,   \* <<>> or <<the dict InsuranceClaimsAgent.process_claim returned>>
    response,       \* the text an inference backend answered
    extracted,      \* <<>> or <<what the two label parsers made of response>>
    comparison,     \* <<>> or <<the dict compare_systems returned>>
    system_type,    \* streamlit_app.main: the value of the "Select System" box
    agent,          \* st.session_state.agent: <<>> or <<the class of the strategy>>
    current_decision,    \* st.session_state.current_decision: <<>> or <<decision, claim>>
    decision_history,    \* st.session_state.decision_history
    performance_tracker, \* st.session_state.performance_tracker.metrics
    show_override_form   \* st.session_state.show_override_form

scoreVars == <<risk_factors, config, policies_df, claim, risk_result, risk_score,
               decision, prev>>

evalVars == <<test_claims, pending, system_name, idx, predictions,
              processing_times, calls, results, agent_log>>

logVars == <<log_entries, log_file, last_op>>

fileVars == <<decisions_log, writers, logged>>

agentVars == <<agent_pc, rounds, agent_result>>

parseVars == <<response, extracted>>

uiVars == <<system_type, agent, current_decision, decision_history,
            performance_tracker, show_override_form>>

\* What the rule-based system, the harness loop and ClaimsLogger never touch.
extraVars == <<fileVars, agentVars, parseVars, comparison, uiVars>>

vars == <<scoreVars, evalVars, logVars, extraVars>>

-----------------------------------------------------------------------------
(* IEEE-754 doubles                                                        *)

DblBase == 2^29

Dbl(h, l) == [hi |-> h, lo |-> l]

Dbl_0_0 == Dbl(0, 0)
Dbl_0_05 == Dbl(13421772, 429496730)
Dbl_0_1 == Dbl(26843545, 322122548)
Dbl_0_15 == Dbl(40265318, 214748364)
Dbl_0_2 == Dbl(53687091, 107374184)
Dbl_0_25 == Dbl(67108864, 0)
Dbl_0_3 == Dbl(80530636, 429496728)
Dbl_0_4 == Dbl(107374182, 214748368)
Dbl_0_7 == Dbl(187904819, 107374176)
Dbl_1_0 == Dbl(268435456, 0)

\* The spacing of the doubles around a value, in units of 2^-57 (53-bit mantissa).
Ulp(h) ==
    IF h >= 2^28 THEN 32
    ELSE IF h >= 2^27 THEN 16
    ELSE IF h >= 2^26 THEN 8
    ELSE IF h >= 2^25 THEN 4
    ELSE IF h >= 2^24 THEN 2
    ELSE 1

\* a + b in double arithmetic: the exact sum rounded to nearest, ties to even.
FAdd(a, b) ==
    LET l0 == a.lo + b.lo
        h == a.hi + b.hi + (l0 \div DblBase)
        l == l0 % DblBase
        q == Ulp(h)
        rem == l % q
        base == l - rem
        up == \/ 2 * rem > q
              \/ /\ q > 1
                 /\ 2 * rem = q
                 /\ (base \div q) % 2 = 1
        l2 == IF up THEN base + q ELSE base
    IN  IF l2 = DblBase THEN Dbl(h + 1, 0) ELSE Dbl(h, l2)

\* a >= b on doubles.
FGe(a, b) == a.hi > b.hi \/ (a.hi = b.hi /\ a.lo >= b.lo)

\* min(a, b) on doubles.
FMin(a, b) == IF FGe(a, b) THEN b ELSE a

\* round(x, 3) in thousandths, for 0 <= x <= 1: floor(x * 1000 + 1/2) computed
\* on x cut to 2^-19, exact unless x * 1000 lies within 0.002 below a half.
Round3(x) == ((x.hi \div 2^9) * 1000 + 2^18) \div 2^19

-----------------------------------------------------------------------------
(* Optional values                                                         *)

None == <<>>

Some(v) == <<v>>

\* Python truthiness of an optional number: not None and not 0.
TruthyNum(o) == o # None /\ o[1] # 0

\* Python truthiness of an optional string: not None and not "".
TruthyStr(o) == o # None /\ o[1] # ""

-----------------------------------------------------------------------------
(* tools.py                                                                *)

RISK_FACTORS ==
    [ high_amount |-> Dbl_0_3,
      multiple_claims |-> Dbl_0_25,
      new_policy |-> Dbl_0_15,
      late_reporting |-> Dbl_0_15,
      high_age_risk |-> Dbl_0_1,
      location_risk |-> Dbl_0_05 ]

CONFIG == [RISK_THRESHOLD_HIGH |-> Dbl_0_7, RISK_THRESHOLD_MEDIUM |-> Dbl_0_4]

high_risk_locations == {"New York, NY", "Los Angeles, CA", "Chicago, IL"}

\* PolicyLookupTool.lookup: an error dict when the table is empty or has no
\* such policy, else the policy's fields (the one the scoring reads is kept).
Lookup(df, policy_id) ==
    IF DOMAIN df = {} THEN [error |-> "Policy database not available"]
    ELSE IF policy_id \notin DOMAIN df THEN [error |-> "Policy not found"]
    ELSE [policy_id |-> policy_id, coverage_limit |-> df[policy_id]]

\* dict.get(key): None when the key is missing.
Get(d, key) == IF key \in DOMAIN d THEN Some(d[key]) ELSE None

\* One "if cond: risk_score += w; risk_factors.append(name)" of the scoring.
AddFactor(acc, cond, w, name) ==
    IF cond
    THEN [score |-> FAdd(acc.score, w), factors |-> Append(acc.factors, name)]
    ELSE acc

\* Slip: a claim at exactly 0.8 x limit counted as near the limit.
NearCoverageLimitInclusive(claim_amount, coverage_limit) ==
    claim_amount * 10 >= coverage_limit * 8

\* Slip: the comparison with the coverage limit turned round.
NearCoverageLimitReversed(claim_amount, coverage_limit) ==
    claim_amount * 10 < coverage_limit * 8

\* claim_amount > coverage_limit * 0.8 (exact on whole-dollar amounts).
NearCoverageLimit(claim_amount, coverage_limit) ==
    claim_amount * 10 > coverage_limit * 8

RiskLevel(cfg, score) ==
    IF FGe(score, cfg.RISK_THRESHOLD_HIGH) THEN "high"
    ELSE IF FGe(score, cfg.RISK_THRESHOLD_MEDIUM) THEN "medium"
    ELSE "low"

\* Slip: the normalisation to the 0-1 scale left out.
NormalizeUncapped(score) == score

\* min(risk_score, 1.0)
Normalize(score) == FMin(score, Dbl_1_0)

\* RiskScoringTool.calculate_risk_score with weight table rf and thresholds cfg.
CalculateRiskScore(rf, cfg, claim_amount, prior_claims, policy_tenure_years, incident_to_report_days, coverage_limit, claimant_age, location) ==
    LET a0 == [score |-> Dbl_0_0, factors |-> <<>>]
        a1 == AddFactor(a0, claim_amount > 50000, rf.high_amount, "high_claim_amount")
        a2 == AddFactor(a1, prior_claims >= 3, rf.multiple_claims, "multiple_prior_claims")
        a3 == AddFactor(a2, policy_tenure_years < 1, rf.new_policy, "new_policy")
        a4 == AddFactor(a3, incident_to_report_days > 30, rf.late_reporting, "late_reporting")
        a5 == AddFactor(a4,
                        TruthyNum(coverage_limit)
                            /\ NearCoverageLimit(claim_amount, coverage_limit[1]),
                        Dbl_0_2, "claim_near_coverage_limit")
        a6 == AddFactor(a5,
                        TruthyNum(claimant_age)
                            /\ (claimant_age[1] < 25 \/ claimant_age[1] > 75),
                        rf.high_age_risk, "age_risk_factor")
        a7 == AddFactor(a6,
                        TruthyStr(location) /\ location[1] \in high_risk_locations,
                        rf.location_risk, "high_risk_location")
        capped == Normalize(a7.score)
    IN  [ risk_score |-> Round3(capped),
          risk_level |-> RiskLevel(cfg, capped),
          risk_factors |-> a7.factors ]

-----------------------------------------------------------------------------
(* evaluation.py: RuleBasedSystem                                          *)

\* Slip: the band limits taken as inclusive upper limits.
SeverityInclusive(claim_amount) ==
    IF claim_amount <= 5000 THEN "low"
    ELSE IF claim_amount <= 25000 THEN "medium"
    ELSE IF claim_amount <= 75000 THEN "high"
    ELSE "critical"

\* Slip: the band limits a digit short.
SeverityMisScaled(claim_amount) ==
    IF claim_amount < 500 THEN "low"
    ELSE IF claim_amount < 2500 THEN "medium"
    ELSE IF claim_amount < 7500 THEN "high"
    ELSE "critical"

\* "Determine severity" of RuleBasedSystem.process_claim.
Severity(claim_amount) ==
    IF claim_amount < 5000 THEN "low"
    ELSE IF claim_amount < 25000 THEN "medium"
    ELSE IF claim_amount < 75000 THEN "high"
    ELSE "critical"

\* Slip: the approve rule without its severity condition.
ActionApproveAnySeverity(severity, score, prior_claims) ==
    IF score < 300 /\ prior_claims < 2 THEN "approve"
    ELSE IF severity = "critical" \/ score >= 700 THEN "escalate"
    ELSE IF score >= 400 \/ prior_claims >= 3 THEN "investigate"
    ELSE IF severity = "medium" /\ score < 400 THEN "approve"
    ELSE "investigate"

\* Slip: the investigate rule without its prior-claims condition.
ActionIgnoresPriorClaims(severity, score, prior_claims) ==
    IF severity = "low" /\ score < 300 /\ prior_claims < 2 THEN "approve"
    ELSE IF severity = "critical" \/ score >= 700 THEN "escalate"
    ELSE IF score >= 400 THEN "investigate"
    ELSE IF severity = "medium" /\ score < 400 THEN "approve"
    ELSE "investigate"

\* Slip: the investigate rule tried before the escalate rule.
ActionInvestigateFirst(severity, score, prior_claims) ==
    IF severity = "low" /\ score < 300 /\ prior_claims < 2 THEN "approve"
    ELSE IF score >= 400 \/ prior_claims >= 3 THEN "investigate"
    ELSE IF severity = "critical" \/ score >= 700 THEN "escalate"
    ELSE IF severity = "medium" /\ score < 400 THEN "approve"
    ELSE "investigate"

\* "Determine action" of RuleBasedSystem.process_claim; score in thousandths.
Action(severity, score, prior_claims) ==
    IF severity = "low" /\ score < 300 /\ prior_claims < 2 THEN "approve"
    ELSE IF severity = "critical" \/ score >= 700 THEN "escalate"
    ELSE IF score >= 400 \/ prior_claims >= 3 THEN "investigate"
    ELSE IF severity = "medium" /\ score < 400 THEN "approve"
    ELSE "investigate"

\* The dict RuleBasedSystem.process_claim returns (rationale text left out).
RuleDecision(c, score) ==
    LET severity == Severity(c.claim_amount)
    IN  [ claim_id |-> c.claim_id,
          severity |-> severity,
          action |-> Action(severity, score, c.prior_claims),
          risk_score |-> score ]

\* Slip: a lookup miss fills the prior-claims count with zero.
RuleRiskResultZeroFill(rf, cfg, df, c) ==
    LET policy_info == Lookup(df, c.policy_id)
    IN  CalculateRiskScore(rf, cfg, c.claim_amount,
                           IF "error" \in DOMAIN policy_info THEN 0 ELSE c.prior_claims,
                           c.policy_tenure_years, c.incident_to_report_days,
                           Get(policy_info, "coverage_limit"),
                           c.claimant_age, c.location)

\* The risk assessment RuleBasedSystem.process_claim asks for.
RuleRiskResult(rf, cfg, df, c) ==
    CalculateRiskScore(rf, cfg, c.claim_amount, c.prior_claims,
                       c.policy_tenure_years, c.incident_to_report_days,
                       Get(Lookup(df, c.policy_id), "coverage_limit"),
                       c.claimant_age, c.location)

-----------------------------------------------------------------------------
(* config.py vocabularies and the label extraction of the two LLM systems  *)
(* A text is a sequence of characters.                                     *)

SEVERITY_LEVELS == <<"low", "medium", "high", "critical">>

ACTION_LABELS == <<"approve", "investigate", "deny", "escalate">>

\* The characters of each label.
CharsOf ==
    [ w \in {"low", "medium", "high", "critical", "approve", "investigate", "deny", "escalate"} |->
        CASE w = "low" -> <<"l", "o", "w">>
          [] w = "medium" -> <<"m", "e", "d", "i", "u", "m">>
          [] w = "high" -> <<"h", "i", "g", "h">>
          [] w = "critical" -> <<"c", "r", "i", "t", "i", "c", "a", "l">>
          [] w = "approve" -> <<"a", "p", "p", "r", "o", "v", "e">>
          [] w = "investigate" -> <<"i", "n", "v", "e", "s", "t", "i", "g", "a", "t", "e">>
          [] w = "deny" -> <<"d", "e", "n", "y">>
          [] w = "escalate" -> <<"e", "s", "c", "a", "l", "a", "t", "e">> ]

UpperCase == <<"A", "B", "C", "D", "E", "F", "G", "H", "I", "J", "K", "L", "M", "N", "O", "P", "Q", "R", "S", "T", "U", "V", "W", "X", "Y", "Z">>

LowerCase == <<"a", "b", "c", "d", "e", "f", "g", "h", "i", "j", "k", "l", "m", "n", "o", "p", "q", "r", "s", "t", "u", "v", "w", "x", "y", "z">>

\* str.lower() on one character, and on a text.
LowerChar(ch) ==
    IF \E i \in 1 .. Len(UpperCase) : UpperCase[i] = ch
    THEN LowerCase[CHOOSE i \in 1 .. Len(UpperCase) : UpperCase[i] = ch]
    ELSE ch

Lower(text) == [i \in 1 .. Len(text) |-> LowerChar(text[i])]

\* "w in text": w occurs as a substring.
Contains(text, w) ==
    \E i \in 1 .. (Len(text) - Len(w) + 1) : SubSeq(text, i, i + Len(w) - 1) = w

\* Slip: the label that stands first in the text wins, not the first of the
\* enumeration.
ScanLabelsByPosition(labels, i, output_lower, default) ==
    LET FirstAt(w) == CHOOSE n \in 1 .. Len(output_lower) :
                          /\ SubSeq(output_lower, n, n + Len(w) - 1) = w
                          /\ \A m \in 1 .. (n - 1) : SubSeq(output_lower, m, m + Len(w) - 1) # w
        present == {k \in i .. Len(labels) : Contains(output_lower, CharsOf[labels[k]])}
    IN  IF present = {} THEN default
        ELSE labels[CHOOSE k \in present :
                        \A m \in present :
                            FirstAt(CharsOf[labels[k]]) <= FirstAt(CharsOf[labels[m]])]

\* "for x in labels: if x in output_lower: value = x; break", from position i.
RECURSIVE ScanLabels(_, _, _, _)
ScanLabels(labels, i, output_lower, default) ==
    IF i > Len(labels) THEN default
    ELSE IF Contains(output_lower, CharsOf[labels[i]]) THEN labels[i]
    ELSE ScanLabels(labels, i + 1, output_lower, default)

\* OneShotLLMSystem._parse_response
ParseResponse(output) ==
    LET output_lower == Lower(output)
    IN  [ severity |-> ScanLabels(SEVERITY_LEVELS, 1, output_lower, "medium"),
          action |-> ScanLabels(ACTION_LABELS, 1, output_lower, "investigate") ]

\* InsuranceClaimsAgent._parse_decision
ParseDecision(output) ==
    LET output_lower == Lower(output)
    IN  [ severity |-> ScanLabels(SEVERITY_LEVELS, 1, output_lower, "medium"),
          action |-> ScanLabels(ACTION_LABELS, 1, output_lower, "investigate") ]

-----------------------------------------------------------------------------
(* logger.py: ClaimsLogger (timestamps left out of the entries)            *)

\* Slip: the new entry put in front.
AddEntryInFront(entries, entry) == <<entry>> \o entries

\* ClaimsLogger._add_entry
AddEntry(entries, entry) == Append(entries, entry)

\* The entry log_tool_call builds.
ToolCallEntry(tool_name, inputs, output) ==
    [type |-> "tool_call", tool_name |-> tool_name, inputs |-> inputs, output |-> output]

\* The entry log_agent_step builds.
AgentStepEntry(step_name, data) ==
    [type |-> "agent_step", step_name |-> step_name, data |-> data]

\* The entry log_human_override builds.
HumanOverrideEntry(claim_id, original_decision, override_decision, reason) ==
    [ type |-> "human_override", claim_id |-> claim_id,
      original_decision |-> original_decision,
      override_decision |-> override_decision, reason |-> reason ]

\* The entry log_evaluation_result builds.
EvaluationEntry(name, metrics) ==
    [type |-> "evaluation", system_name |-> name, metrics |-> metrics]

\* The entry log_error builds ("context or {}").
ErrorEntry(error_type, error_message, context) ==
    [ type |-> "error", error_type |-> error_type, error_message |-> error_message,
      context |-> IF context = None THEN <<>> ELSE context[1] ]

-----------------------------------------------------------------------------
(* The three decision strategies.  What the strategy's surroundings do in  *)
(* one call is a "run": whether a tool or the inference backend raises,    *)
(* which tools the agent loop calls, and the text the backend answers.     *)

ErrorMessage == <<"b", "a", "c", "k", "e", "n", "d", " ", "d", "o", "w", "n">>

\* RuleBasedSystem.process_claim: no handler, an exception leaves the call.
RuleProcessClaim(rf, cfg, df, c, run) ==
    IF run.raises
    THEN [failed |-> TRUE, raised |-> TRUE, result |-> None]
    ELSE [ failed |-> FALSE, raised |-> FALSE,
           result |-> Some(RuleDecision(c, RuleRiskResult(rf, cfg, df, c).risk_score)) ]

\* OneShotLLMSystem.process_claim: the except branch answers medium/investigate.
OneShotProcessClaim(c, run) ==
    IF run.raises
    THEN [ failed |-> TRUE, raised |-> FALSE,
           result |-> Some([ claim_id |-> c.claim_id,
                             severity |-> "medium",
                             action |-> "investigate",
                             rationale |-> <<"Error: ", ErrorMessage>> ]) ]
    ELSE LET parsed == ParseResponse(run.output)
         IN  [ failed |-> FALSE, raised |-> FALSE,
               result |-> Some([ claim_id |-> c.claim_id,
                                 severity |-> parsed.severity,
                                 action |-> parsed.action,
                                 rationale |-> run.output ]) ]

\* InsuranceClaimsAgent.process_claim: the value returned.
AgentProcessClaim(c, run) ==
    IF run.raises
    THEN [ failed |-> TRUE, raised |-> FALSE,
           result |-> Some([ claim_id |-> c.claim_id,
                             severity |-> "unknown",
                             action |-> "escalate",
                             rationale |-> <<"Error processing claim: ", ErrorMessage>>,
                             success |-> FALSE ]) ]
    ELSE LET parsed == ParseDecision(run.output)
         IN  [ failed |-> FALSE, raised |-> FALSE,
               result |-> Some([ claim_id |-> c.claim_id,
                                 severity |-> parsed.severity,
                                 action |-> parsed.action,
                                 rationale |-> run.output,
                                 success |-> TRUE ]) ]

\* The tool wrappers' log_tool_call entries of one agent run, in call order.
RECURSIVE LogToolCalls(_, _)
LogToolCalls(entries, tool_calls) ==
    IF tool_calls = <<>> THEN entries
    ELSE LogToolCalls(AddEntry(entries, ToolCallEntry(Head(tool_calls), <<>>, <<>>)),
                      Tail(tool_calls))

\* InsuranceClaimsAgent.process_claim: what it appends to the agent's log
\* (steps: the user message, two messages per tool call, the final answer).
AgentLogAfter(entries, c, run) ==
    LET received == AddEntry(entries, AgentStepEntry("claim_received", c))
        called == LogToolCalls(received, run.tool_calls)
    IN  IF run.raises
        THEN AddEntry(called, AgentStepEntry("claim_error",
                          [claim_id |-> c.claim_id, error |-> ErrorMessage]))
        ELSE LET parsed == ParseDecision(run.output)
             IN  AddEntry(called, AgentStepEntry("claim_processed",
                          [ claim_id |-> c.claim_id, severity |-> parsed.severity,
                            action |-> parsed.action,
                            steps |-> 2 * Len(run.tool_calls) + 2 ]))

-----------------------------------------------------------------------------
(* Inputs                                                                  *)

MaxPriorClaims == 4

Amounts == {2000, 6000, 50000, 50001, 80000, 80001}

PriorClaims == 0 .. MaxPriorClaims

Tenures == {0, 1, 5}

ReportDays == {5, 30, 31, 45}

PoliciesDf == [p \in {"POL-0", "POL-50K", "POL-100K"} |->
                  CASE p = "POL-0" -> 0
                    [] p = "POL-50K" -> 50000
                    [] p = "POL-100K" -> 100000]

PolicyIds == {"POL-0", "POL-50K", "POL-100K", "POL-404"}

Ages == {None, Some(0), Some(24), Some(25), Some(75), Some(76)}

Locations == {None, Some("New York, NY"), Some("Boston, MA")}

Claims ==
    [ claim_id : {"CLM-1"},
      policy_id : PolicyIds,
      claim_amount : Amounts,
      prior_claims : PriorClaims,
      policy_tenure_years : Tenures,
      incident_to_report_days : ReportDays,
      claimant_age : Ages,
      location : Locations ]

NoPrev == [op |-> "none", risk_score |-> 0]

NoOp == [op |-> "none", value |-> None]

\* No evaluation run is under way.
IdleEval ==
    /\ test_claims = <<>>
    /\ pending = <<>>
    /\ system_name = ""
    /\ idx = 0
    /\ predictions = <<>>
    /\ processing_times = <<>>
    /\ calls = <<>>
    /\ results = <<>>
    /\ agent_log = <<>>

\* ClaimsLogger.__init__: nothing logged, nothing saved.
IdleLog ==
    /\ log_entries = <<>>
    /\ log_file = None
    /\ last_op = NoOp

\* No claim is with the rule-based system; its tools are as constructed.
IdleScore ==
    /\ risk_factors = RISK_FACTORS
    /\ config = CONFIG
    /\ policies_df = PoliciesDf
    /\ claim = None
    /\ risk_result = None
    /\ risk_score = None
    /\ decision = None
    /\ prev = NoPrev

\* No TriageLoggerTool is constructed and no decisions file is written.
IdleFile ==
    /\ decisions_log = None
    /\ writers = <<>>
    /\ logged = <<>>

\* No agent loop is running.
IdleAgent ==
    /\ agent_pc = "idle"
    /\ rounds = 0
    /\ agent_result = None

\* No backend answer is being parsed.
IdleParse ==
    /\ response = <<>>
    /\ extracted = None

\* The "Select System" options of streamlit_app.main, in display order.
SystemTypes == <<"Agentic System", "Rule-Based", "One-Shot LLM">>

\* PerformanceTracker.__init__ (the processing times are left out).
NewTracker == [total_claims |-> 0, decisions |-> <<>>, overrides |-> 0]

\* "Initialize session state" of streamlit_app.py: no UI session has acted.
IdleUI ==
    /\ system_type = SystemTypes[1]
    /\ agent = None
    /\ current_decision = None
    /\ decision_history = <<>>
    /\ performance_tracker = NewTracker
    /\ show_override_form = FALSE

IdleExtra ==
    /\ IdleFile
    /\ IdleAgent
    /\ IdleParse
    /\ comparison = None
    /\ IdleUI

-----------------------------------------------------------------------------
(* SpecScore: RuleBasedSystem.process_claim called again and again         *)

InitScore ==
    /\ risk_factors = RISK_FACTORS
    /\ config = CONFIG
    /\ policies_df = PoliciesDf
    /\ claim \in Claims
    /\ risk_result = None
    /\ risk_score = None
    /\ decision = None
    /\ prev = NoPrev
    /\ IdleEval
    /\ IdleLog
    /\ IdleExtra

\* Slip: a call that tunes the weight table on what it has just seen.
RunRuleBasedAdapting(c) ==
    LET rr == RuleRiskResult(risk_factors, config, policies_df, c)
    IN  /\ claim' = c
        /\ risk_result' = Some(rr)
        /\ risk_score' = Some(rr.risk_score)
        /\ decision' = Some(RuleDecision(c, rr.risk_score))
        /\ risk_factors' = IF rr.risk_level = "high"
                           THEN [risk_factors EXCEPT !.high_amount = Dbl_0_4]
                           ELSE risk_factors
        /\ UNCHANGED <<config, policies_df, evalVars, logVars, extraVars>>

\* RuleBasedSystem.process_claim on claim c.
RunRuleBased(c) ==
    LET rr == RuleRiskResult(risk_factors, config, policies_df, c)
    IN  /\ claim' = c
        /\ risk_result' = Some(rr)
        /\ risk_score' = Some(rr.risk_score)
        /\ decision' = Some(RuleDecision(c, rr.risk_score))
        /\ UNCHANGED <<risk_factors, config, policies_df, evalVars, logVars, extraVars>>

\* The first call on the claim drawn.
ProcessClaim ==
    /\ decision = None
    /\ RunRuleBased(claim)
    /\ prev' = NoPrev

\* The next call: the same claim with a larger amount.
ProcessLargerAmount ==
    /\ decision # None
    /\ \E a \in Amounts :
        /\ a > claim.claim_amount
        /\ RunRuleBased([claim EXCEPT !.claim_amount = a])
    /\ prev' = [op |-> "claim_amount", risk_score |-> risk_score[1]]

\* The next call: the same claim with more prior claims.
ProcessMorePriorClaims ==
    /\ decision # None
    /\ \E p \in PriorClaims :
        /\ p > claim.prior_claims
        /\ RunRuleBased([claim EXCEPT !.prior_claims = p])
    /\ prev' = [op |-> "prior_claims", risk_score |-> risk_score[1]]

\* The next call: the same claim reported later.
ProcessLaterReport ==
    /\ decision # None
    /\ \E d \in ReportDays :
        /\ d > claim.incident_to_report_days
        /\ RunRuleBased([claim EXCEPT !.incident_to_report_days = d])
    /\ prev' = [op |-> "incident_to_report_days", risk_score |-> risk_score[1]]

\* The next call: the very same claim once more.
ProcessAgain ==
    /\ decision # None
    /\ RunRuleBased(claim)
    /\ prev' = [op |-> "same", risk_score |-> risk_score[1]]

NextScore ==
    \/ ProcessClaim
    \/ ProcessLargerAmount
    \/ ProcessMorePriorClaims
    \/ ProcessLaterReport
    \/ ProcessAgain

SpecScore == InitScore /\ [][NextScore]_vars

\* C1: every risk score calculate_risk_score returns lies in [0, 1]
\* (0 .. 1000 thousandths), whatever the inputs.
C1_ScoreInUnitInterval ==
    risk_result # None =>
        /\ risk_result[1].risk_score >= 0
        /\ risk_result[1].risk_score <= 1000

\* C1 witness: the triggered weights add up to more than 1.0 and the score
\* returned is the cap.
C1_Witness ==
    /\ risk_result # None
    /\ Len(risk_result[1].risk_factors) = 7
    /\ risk_result[1].risk_score = 1000

\* C8: a call that differs from the one before only in a larger claim amount,
\* more prior claims or a later report never returns a lower risk score.
C8_ScoreMonotone ==
    prev.op \in {"claim_amount", "prior_claims", "incident_to_report_days"} =>
        prev.risk_score <= risk_score[1]

\* C8 witness: a larger amount alone lifted the score, and up to the cap.
C8_Witness ==
    /\ prev.op = "claim_amount"
    /\ prev.risk_score < 1000
    /\ risk_score[1] = 1000

\* C9: scoring and classification are stateless: no call changes the weight
\* table or the thresholds, a repeated call returns what the call before it
\* returned, and after any number of calls the outputs are those of a fresh
\* tool on the same claim.
C9_Stateless ==
    /\ risk_factors = RISK_FACTORS
    /\ config = CONFIG
    /\ (prev.op = "same" =>
            /\ risk_score[1] = prev.risk_score
            /\ risk_result[1] = RuleRiskResult(RISK_FACTORS, CONFIG, PoliciesDf, claim)
            /\ decision[1] = RuleDecision(claim, risk_result[1].risk_score))

\* C9 witness: an identical claim was processed a second time, with a high
\* assessment both times.
C9_Witness ==
    /\ prev.op = "same"
    /\ prev.risk_score >= 700
    /\ risk_result[1].risk_level = "high"
    /\ decision[1].action = "escalate"

\* The factors of the last assessment, as a set.
ReturnedFactors ==
    {risk_result[1].risk_factors[k] : k \in 1 .. Len(risk_result[1].risk_factors)}

\* The coverage limit the policy lookup supplied for the claim, if any.
SuppliedCoverageLimit == Get(Lookup(policies_df, claim.policy_id), "coverage_limit")

\* C15: an optional rule is skipped only when its input is absent: every
\* supplied age below 25 or above 75 brings age_risk_factor, and every
\* supplied coverage limit with amount > 0.8 x limit brings
\* claim_near_coverage_limit.
C15_OptionalRuleSkippedOnlyWhenAbsent ==
    risk_result # None =>
        /\ (/\ claim.claimant_age # None
            /\ (claim.claimant_age[1] < 25 \/ claim.claimant_age[1] > 75))
               => "age_risk_factor" \in ReturnedFactors
        /\ (/\ SuppliedCoverageLimit # None
            /\ claim.claim_amount * 10 > SuppliedCoverageLimit[1] * 8)
               => "claim_near_coverage_limit" \in ReturnedFactors

\* C16: the tier returned agrees with the score returned: high exactly from
\* 0.7, medium exactly in [0.4, 0.7), low exactly below 0.4.
C16_TierMatchesScore ==
    risk_result # None =>
        LET score == risk_result[1].risk_score
            tier == risk_result[1].risk_level
        IN  /\ (tier = "high" <=> score >= 700)
            /\ (tier = "medium" <=> (400 <= score /\ score < 700))
            /\ (tier = "low" <=> score < 400)

\* The fixed order of the factors and their weights in thousandths.
FactorOrder ==
    << "high_claim_amount", "multiple_prior_claims", "new_policy", "late_reporting",
       "claim_near_coverage_limit", "age_risk_factor", "high_risk_location" >>

FactorWeights == <<300, 250, 150, 150, 200, 100, 50>>

\* The place of a factor in the fixed order.
FactorIndex(name) == CHOOSE k \in 1 .. Len(FactorOrder) : FactorOrder[k] = name

\* The condition of each factor on the claim and the coverage limit supplied.
FactorHolds(name) ==
    CASE name = "high_claim_amount" -> claim.claim_amount > 50000
      [] name = "multiple_prior_claims" -> claim.prior_claims >= 3
      [] name = "new_policy" -> claim.policy_tenure_years < 1
      [] name = "late_reporting" -> claim.incident_to_report_days > 30
      [] name = "claim_near_coverage_limit" ->
            /\ SuppliedCoverageLimit # None
            /\ claim.claim_amount * 10 > SuppliedCoverageLimit[1] * 8
      [] name = "age_risk_factor" ->
            /\ claim.claimant_age # None
            /\ (claim.claimant_age[1] < 25 \/ claim.claimant_age[1] > 75)
      [] name = "high_risk_location" ->
            /\ claim.location # None
            /\ claim.location[1] \in high_risk_locations

\* The weights of a list of factors, added up.
RECURSIVE WeightSum(_)
WeightSum(factors) ==
    IF factors = <<>> THEN 0
    ELSE FactorWeights[FactorIndex(Head(factors))] + WeightSum(Tail(factors))

\* The factor list is a duplicate-free subsequence of the fixed order.
C17_InFixedOrder ==
    risk_result # None =>
        LET f == risk_result[1].risk_factors
        IN  /\ \A k \in 1 .. Len(f) : \E n \in 1 .. Len(FactorOrder) : FactorOrder[n] = f[k]
            /\ \A k \in 1 .. (Len(f) - 1) : FactorIndex(f[k]) < FactorIndex(f[k + 1])

\* The score is the capped sum of the weights of the factors listed.
C17_ScoreIsCappedSum ==
    risk_result # None =>
        LET sum == WeightSum(risk_result[1].risk_factors)
        IN  risk_result[1].risk_score = IF sum > 1000 THEN 1000 ELSE sum

\* C17: the factor list is a duplicate-free subsequence of the fixed order,
\* holds a factor exactly when the factor's condition holds, and the score is
\* min(1.0, sum of the listed factors' weights).
C17_FactorsAndScore ==
    /\ C17_InFixedOrder
    /\ C17_ScoreIsCappedSum
    /\ risk_result # None =>
           \A n \in 1 .. Len(FactorOrder) :
               FactorOrder[n] \in ReturnedFactors <=> FactorHolds(FactorOrder[n])

\* C27: when only the claim amount grows the decision never becomes more
\* permissive: a claim investigated or escalated is not approved when
\* processed again with a larger amount and everything else the same.
C27_AmountNeverMorePermissive ==
    [][ (/\ prev'.op = "claim_amount"
         /\ decision # None
         /\ decision[1].action \in {"investigate", "escalate"})
            => decision'[1].action # "approve" ]_vars

\* C22 as stated: amount 80,000, four prior claims, tenure 0, reported after
\* 45 days, coverage limit 100,000, no age, no location: the five factors in
\* order, score 1.00 (1.05 capped), tier high, severity critical, action
\* escalate.
C22_HighRiskScenario ==
    (/\ risk_result # None
     /\ claim.claim_amount = 80000
     /\ claim.prior_claims = 4
     /\ claim.policy_tenure_years = 0
     /\ claim.incident_to_report_days = 45
     /\ claim.policy_id = "POL-100K"
     /\ claim.claimant_age = None
     /\ claim.location = None) =>
        /\ risk_result[1].risk_factors =
               << "high_claim_amount", "multiple_prior_claims", "new_policy",
                  "late_reporting", "claim_near_coverage_limit" >>
        /\ risk_result[1].risk_score = 1000
        /\ risk_result[1].risk_level = "high"
        /\ decision[1].severity = "critical"
        /\ decision[1].action = "escalate"

\* C22 as amended: the same claim; 80,000 is not more than 0.8 x 100,000, so
\* claim_near_coverage_limit is absent: four factors in order, score 0.85,
\* tier high, severity critical, action escalate.
C22_HighRiskScenarioAmended ==
    (/\ risk_result # None
     /\ claim.claim_amount = 80000
     /\ claim.prior_claims = 4
     /\ claim.policy_tenure_years = 0
     /\ claim.incident_to_report_days = 45
     /\ claim.policy_id = "POL-100K"
     /\ claim.claimant_age = None
     /\ claim.location = None) =>
        /\ risk_result[1].risk_factors =
               << "high_claim_amount", "multiple_prior_claims", "new_policy",
                  "late_reporting" >>
        /\ risk_result[1].risk_score = 850
        /\ risk_result[1].risk_level = "high"
        /\ decision[1].severity = "critical"
        /\ decision[1].action = "escalate"

\* C22 witness: that claim has been processed against the 100,000 limit.
C22_Witness ==
    /\ decision # None
    /\ claim.claim_amount = 80000
    /\ claim.prior_claims = 4
    /\ claim.policy_tenure_years = 0
    /\ claim.incident_to_report_days = 45
    /\ SuppliedCoverageLimit = Some(100000)
    /\ claim.claimant_age = None
    /\ claim.location = None
    /\ Len(risk_result[1].risk_factors) = 4
    /\ decision[1].risk_score = 850

\* C23: amount 2,000, no prior claims, tenure 5, reported after 5 days, no
\* coverage limit, no age, no location: score 0.0, tier low, no factor,
\* severity low, action approve.
C23_LowRiskScenario ==
    (/\ risk_result # None
     /\ claim.claim_amount = 2000
     /\ claim.prior_claims = 0
     /\ claim.policy_tenure_years = 5
     /\ claim.incident_to_report_days = 5
     /\ SuppliedCoverageLimit = None
     /\ claim.claimant_age = None
     /\ claim.location = None) =>
        /\ risk_result[1].risk_factors = <<>>
        /\ risk_result[1].risk_score = 0
        /\ risk_result[1].risk_level = "low"
        /\ decision[1].severity = "low"
        /\ decision[1].action = "approve"

\* C23 witness: that claim has been processed and approved.
C23_Witness ==
    /\ decision # None
    /\ claim.claim_amount = 2000
    /\ claim.prior_claims = 0
    /\ claim.policy_tenure_years = 5
    /\ claim.incident_to_report_days = 5
    /\ claim.policy_id = "POL-404"
    /\ claim.claimant_age = None
    /\ claim.location = None
    /\ decision[1].risk_score = 0
    /\ decision[1].action = "approve"

-----------------------------------------------------------------------------
(* SpecTriage: the decision logic of RuleBasedSystem.process_claim on any  *)
(* (claim amount, risk score, prior claims)                                *)

BandAmounts == {0, 4999, 5000, 24999, 25000, 74999, 75000, 100000}

RiskScores == 0 .. 1000

TriageClaims ==
    [ claim_id : {"CLM-1"},
      policy_id : {"POL-100K"},
      claim_amount : BandAmounts,
      prior_claims : PriorClaims,
      policy_tenure_years : {5},
      incident_to_report_days : {5},
      claimant_age : {Some(40)},
      location : {None} ]

\* The risk tool has returned some score for the claim.
InitTriage ==
    /\ risk_factors = RISK_FACTORS
    /\ config = CONFIG
    /\ policies_df = PoliciesDf
    /\ claim \in TriageClaims
    /\ risk_result = None
    /\ risk_score \in {Some(r) : r \in RiskScores}
    /\ decision = None
    /\ prev = NoPrev
    /\ IdleEval
    /\ IdleLog
    /\ IdleExtra

\* "Rule-based decision logic" of process_claim, up to its return.
DetermineDecision ==
    /\ decision = None
    /\ decision' = Some(RuleDecision(claim, risk_score[1]))
    /\ UNCHANGED <<risk_factors, config, policies_df, claim, risk_result,
                   risk_score, prev, evalVars, logVars, extraVars>>

NextTriage == DetermineDecision

SpecTriage == InitTriage /\ [][NextTriage]_vars

\* C2: a critical claim or a risk score >= 0.7 is escalated, whatever the
\* number of prior claims.
C2_CriticalOrHighRiskEscalates ==
    decision # None =>
        (claim.claim_amount >= 75000 \/ risk_score[1] >= 700
            => decision[1].action = "escalate")

\* C2 witness: critical, risk 0.2, no prior claims: escalated.
C2_Witness ==
    /\ decision # None
    /\ decision[1].severity = "critical"
    /\ risk_score[1] = 200
    /\ claim.prior_claims = 0
    /\ decision[1].action = "escalate"

\* C6: every amount gets exactly the severity of its band: < 5,000 low,
\* [5,000, 25,000) medium, [25,000, 75,000) high, >= 75,000 critical.
C6_SeverityBands ==
    decision # None =>
        LET a == claim.claim_amount
            sev == decision[1].severity
        IN  /\ sev \in {"low", "medium", "high", "critical"}
            /\ (sev = "low" <=> a < 5000)
            /\ (sev = "medium" <=> (5000 <= a /\ a < 25000))
            /\ (sev = "high" <=> (25000 <= a /\ a < 75000))
            /\ (sev = "critical" <=> a >= 75000)

\* C6 witness: the three band limits fall in the upper band.
C6_Witness ==
    /\ decision # None
    /\ claim.claim_amount \in {5000, 25000, 75000}
    /\ decision[1].severity = Severity(claim.claim_amount + 1)

\* C7: the action is that of the first matching rule of the five-rule chain.
C7_FirstMatchChain ==
    decision # None =>
        LET sev == decision[1].severity
            r == risk_score[1]
            p == claim.prior_claims
            act == decision[1].action
            R1 == sev = "low" /\ r < 300 /\ p < 2
            R2 == sev = "critical" \/ r >= 700
            R3 == r >= 400 \/ p >= 3
            R4 == sev = "medium" /\ r < 400
        IN  /\ act \in {"approve", "investigate", "escalate"}
            /\ (R1 => act = "approve")
            /\ (~R1 /\ R2 => act = "escalate")
            /\ (~R1 /\ ~R2 /\ R3 => act = "investigate")
            /\ (~R1 /\ ~R2 /\ ~R3 /\ R4 => act = "approve")
            /\ (~R1 /\ ~R2 /\ ~R3 /\ ~R4 => act = "investigate")

\* C7 witness: rules 2 and 3 both match and the earlier one, escalate, wins.
C7_Witness ==
    /\ decision # None
    /\ decision[1].severity = "high"
    /\ risk_score[1] >= 700
    /\ claim.prior_claims >= 3
    /\ decision[1].action = "escalate"

\* C24: the action is approve exactly when the claim is low with risk < 0.3
\* and fewer than 2 prior claims, or medium with risk < 0.4 and fewer than 3
\* prior claims; high and critical claims, risk >= 0.4 and 3 or more prior
\* claims are never approved, and the action is never deny.
C24_ApproveExactlyWhen ==
    decision # None =>
        LET sev == decision[1].severity
            r == decision[1].risk_score
            p == claim.prior_claims
            act == decision[1].action
        IN  /\ act = "approve" <=>
                   \/ sev = "low" /\ r < 300 /\ p < 2
                   \/ sev = "medium" /\ r < 400 /\ p < 3
            /\ sev \in {"high", "critical"} => act # "approve"
            /\ r >= 400 => act # "approve"
            /\ p >= 3 => act # "approve"
            /\ act # "deny"

\* C24 witness: a medium claim with risk 0.399 is approved with two prior
\* claims and a low claim with risk 0.299 and two prior claims is not.
C24_Witness ==
    /\ decision # None
    /\ claim.prior_claims = 2
    /\ \/ /\ decision[1].severity = "medium"
          /\ risk_score[1] = 399
          /\ decision[1].action = "approve"
       \/ /\ decision[1].severity = "low"
          /\ risk_score[1] = 299
          /\ decision[1].action = "investigate"

-----------------------------------------------------------------------------
(* SpecEval: EvaluationSystem.evaluate_all_systems on a batch of claims    *)
(* (the batch is not empty: run_evaluation takes the head of the claims    *)
(* file; the ground-truth labels are those data_generator.py assigns)      *)

MaxBatch == 2

EvalClaims ==
    { [ claim_id |-> "CLM-1", policy_id |-> "POL-100K", claim_amount |-> 2000,
        prior_claims |-> 0, policy_tenure_years |-> 5, incident_to_report_days |-> 5,
        claimant_age |-> Some(40), location |-> Some("Boston, MA"),
        ground_truth_severity |-> "low", ground_truth_action |-> "approve" ],
      [ claim_id |-> "CLM-2", policy_id |-> "POL-100K", claim_amount |-> 80000,
        prior_claims |-> 1, policy_tenure_years |-> 0, incident_to_report_days |-> 45,
        claimant_age |-> Some(40), location |-> Some("New York, NY"),
        ground_truth_severity |-> "critical", ground_truth_action |-> "escalate" ] }

Batches == UNION {[1 .. n -> EvalClaims] : n \in 1 .. MaxBatch}

\* "Critical: escalate"
OutputCriticalEscalate == <<"C", "r", "i", "t", "i", "c", "a", "l", ":", " ", "e", "s", "c", "a", "l", "a", "t", "e">>

\* "lower risk, approve"
OutputLowerApprove == <<"l", "o", "w", "e", "r", " ", "r", "i", "s", "k", ",", " ", "a", "p", "p", "r", "o", "v", "e">>

RuleRuns == {[raises |-> FALSE], [raises |-> TRUE]}

OneShotRuns ==
    { [raises |-> TRUE, output |-> <<>>],
      [raises |-> FALSE, output |-> OutputCriticalEscalate],
      [raises |-> FALSE, output |-> OutputLowerApprove] }

AgentRuns ==
    { [raises |-> TRUE, tool_calls |-> <<>>, output |-> <<>>],
      [raises |-> FALSE, tool_calls |-> <<"policy_lookup">>, output |-> OutputCriticalEscalate],
      [raises |-> FALSE, tool_calls |-> <<>>, output |-> OutputLowerApprove] }

\* self.systems, in insertion order.
SystemNames == <<"rule_based", "one_shot_llm", "agentic">>

\* Slip: a claim whose call raised left out of the predictions.
AppendPredictionSkipFailed(preds, c, call) ==
    IF call.raised THEN preds
    ELSE Append(preds, [ claim_id |-> c.claim_id,
                         predicted_severity |-> call.result[1].severity,
                         predicted_action |-> call.result[1].action,
                         true_severity |-> c.ground_truth_severity,
                         true_action |-> c.ground_truth_action,
                         processing_time |-> 1 ])

\* evaluate_system: the prediction appended for claim c (try and except branch;
\* a measured processing time is one tick).
AppendPrediction(preds, c, call) ==
    IF call.raised
    THEN Append(preds, [ claim_id |-> c.claim_id,
                         predicted_severity |-> "unknown",
                         predicted_action |-> "escalate",
                         true_severity |-> c.ground_truth_severity,
                         true_action |-> c.ground_truth_action,
                         processing_time |-> 0 ])
    ELSE Append(preds, [ claim_id |-> c.claim_id,
                         predicted_severity |-> call.result[1].severity,
                         predicted_action |-> call.result[1].action,
                         true_severity |-> c.ground_truth_severity,
                         true_action |-> c.ground_truth_action,
                         processing_time |-> 1 ])

\* sklearn confusion_matrix(y_true, y_pred, labels=labels).tolist(): cell [i][j]
\* counts the samples with true label labels[i] and predicted label labels[j];
\* a sample with a label outside labels is in no cell.
ConfusionMatrix(y_true, y_pred, labels) ==
    [i \in 1 .. Len(labels) |->
        [j \in 1 .. Len(labels) |->
            Cardinality({k \in 1 .. Len(y_true) :
                            y_true[k] = labels[i] /\ y_pred[k] = labels[j]})]]

\* accuracy_score as the fraction correct / all.
AccuracyScore(y_true, y_pred) ==
    [ num |-> Cardinality({k \in 1 .. Len(y_true) : y_true[k] = y_pred[k]}),
      den |-> Len(y_true) ]

RECURSIVE Gcd(_, _)
Gcd(a, b) == IF b = 0 THEN a ELSE Gcd(b, a % b)

\* The least common multiple of 1 .. n.
RECURSIVE LcmUpTo(_)
LcmUpTo(n) ==
    IF n <= 1 THEN 1
    ELSE LET m == LcmUpTo(n - 1) IN (m * n) \div Gcd(m, n)

\* precision_recall_fscore_support(y_true, y_pred, average="weighted",
\* zero_division=0)[2] as the exact fraction num / den: over the labels that
\* occur in y_true or y_pred, the F1 of each label, 2tp / (2tp + fp + fn),
\* weighted by the label's count in y_true.  Every 2tp + fp + fn is at most
\* 2 * len(y_true), so all terms are taken over the one denominator
\* len(y_true) * lcm(1 .. 2 * len(y_true)).
WeightedF1(y_true, y_pred) ==
    LET n == Len(y_true)
        unit == LcmUpTo(2 * n)
        labels == {y_true[k] : k \in 1 .. n} \cup {y_pred[k] : k \in 1 .. n}
        Support(l) == Cardinality({k \in 1 .. n : y_true[k] = l})
        Predicted(l) == Cardinality({k \in 1 .. n : y_pred[k] = l})
        Tp(l) == Cardinality({k \in 1 .. n : y_true[k] = l /\ y_pred[k] = l})
        Term(l) == Support(l) * ((2 * Tp(l) * unit) \div (Support(l) + Predicted(l)))
        ordered == CHOOSE q \in [1 .. Cardinality(labels) -> labels] :
                       \A l \in labels : \E k \in DOMAIN q : q[k] = l
        SumTo[k \in 0 .. Cardinality(labels)] ==
            IF k = 0 THEN 0 ELSE SumTo[k - 1] + Term(ordered[k])
    IN  [num |-> SumTo[Cardinality(labels)], den |-> n * unit]

\* EvaluationSystem._calculate_metrics (precision and recall left out).
CalculateMetrics(preds) ==
    LET pred_severities == [k \in 1 .. Len(preds) |-> preds[k].predicted_severity]
        true_severities == [k \in 1 .. Len(preds) |-> preds[k].true_severity]
        pred_actions == [k \in 1 .. Len(preds) |-> preds[k].predicted_action]
        true_actions == [k \in 1 .. Len(preds) |-> preds[k].true_action]
    IN  [ severity_accuracy |-> AccuracyScore(true_severities, pred_severities),
          severity_f1 |-> WeightedF1(true_severities, pred_severities),
          action_accuracy |-> AccuracyScore(true_actions, pred_actions),
          action_f1 |-> WeightedF1(true_actions, pred_actions),
          severity_confusion_matrix |->
              ConfusionMatrix(true_severities, pred_severities, SEVERITY_LEVELS),
          action_confusion_matrix |->
              ConfusionMatrix(true_actions, pred_actions, ACTION_LABELS),
          predictions |-> preds ]

InitEval ==
    /\ IdleScore
    /\ IdleLog
    /\ test_claims \in Batches
    /\ pending = SystemNames
    /\ system_name = ""
    /\ idx = 0
    /\ predictions = <<>>
    /\ processing_times = <<>>
    /\ calls = <<>>
    /\ results = <<>>
    /\ agent_log = <<>>
    /\ IdleExtra

\* evaluate_all_systems takes the next system; evaluate_system starts its loop.
StartSystem ==
    /\ system_name = ""
    /\ pending # <<>>
    /\ system_name' = Head(pending)
    /\ pending' = Tail(pending)
    /\ idx' = 0
    /\ predictions' = <<>>
    /\ processing_times' = <<>>
    /\ calls' = <<>>
    /\ UNCHANGED <<test_claims, results, agent_log, scoreVars, logVars, extraVars>>

\* One pass of evaluate_system's loop, given what the process_claim call did.
RecordCall(c, call) ==
    /\ predictions' = AppendPrediction(predictions, c, call)
    /\ processing_times' =
           IF call.raised THEN processing_times ELSE Append(processing_times, 1)
    /\ calls' = Append(calls, call)
    /\ idx' = idx + 1
    /\ UNCHANGED <<test_claims, pending, system_name, results, scoreVars, logVars, extraVars>>

EvaluateClaimRuleBased ==
    /\ system_name = "rule_based"
    /\ idx < Len(test_claims)
    /\ \E run \in RuleRuns :
        RecordCall(test_claims[idx + 1],
                   RuleProcessClaim(risk_factors, config, policies_df,
                                    test_claims[idx + 1], run))
    /\ UNCHANGED agent_log

EvaluateClaimOneShot ==
    /\ system_name = "one_shot_llm"
    /\ idx < Len(test_claims)
    /\ \E run \in OneShotRuns :
        RecordCall(test_claims[idx + 1], OneShotProcessClaim(test_claims[idx + 1], run))
    /\ UNCHANGED agent_log

EvaluateClaimAgentic ==
    /\ system_name = "agentic"
    /\ idx < Len(test_claims)
    /\ \E run \in AgentRuns :
        /\ RecordCall(test_claims[idx + 1], AgentProcessClaim(test_claims[idx + 1], run))
        /\ agent_log' = AgentLogAfter(agent_log, test_claims[idx + 1], run)

\* evaluate_system returns its metrics; evaluate_all_systems stores and logs them.
FinishSystem ==
    /\ system_name # ""
    /\ idx = Len(test_claims)
    /\ LET metrics == CalculateMetrics(predictions)
                          @@ [avg_processing_time |->
                                 IF processing_times = <<>> THEN 0 ELSE 1]
       IN  /\ results' = results @@ (system_name :> metrics)
           /\ log_entries' = AddEntry(log_entries, EvaluationEntry(system_name, metrics))
    /\ last_op' = [op |-> "log_evaluation_result", value |-> None]
    /\ system_name' = ""
    /\ idx' = 0
    /\ predictions' = <<>>
    /\ processing_times' = <<>>
    /\ calls' = <<>>
    /\ UNCHANGED <<test_claims, pending, agent_log, log_file, scoreVars, extraVars>>

\* a > b on fractions.
FracGt(a, b) == a.num * b.den > b.num * a.den

\* Slip: among equal scores the last one evaluated wins.
MaxByKeyLast(order, key) ==
    LET Best[k \in 1 .. Len(order)] ==
            IF k = 1 THEN order[1]
            ELSE IF FracGt(key[Best[k - 1]], key[order[k]]) THEN Best[k - 1]
            ELSE order[k]
    IN  Best[Len(order)]

\* max(d, key=d.get): the keys are gone through in the dict's order and a
\* later key replaces the best so far only when its value is greater.
MaxByKey(order, key) ==
    LET Best[k \in 1 .. Len(order)] ==
            IF k = 1 THEN order[1]
            ELSE IF FracGt(key[order[k]], key[Best[k - 1]]) THEN order[k]
            ELSE Best[k - 1]
    IN  Best[Len(order)]

\* The weighted combination of compare_systems as an exact fraction, the two
\* accuracies brought to the denominator of the F1 scores.
OverallScore(system_results) ==
    LET den == system_results.severity_f1.den
        scale == den \div system_results.severity_accuracy.den
    IN  [ num |-> 4 * system_results.severity_accuracy.num * scale
                  + 4 * system_results.action_accuracy.num * scale
                  + system_results.severity_f1.num
                  + system_results.action_f1.num,
          den |-> 10 * den ]

\* The keys of results in insertion order: the order of self.systems.
ResultsOrder(res) ==
    LET Evaluated(name) == name \in DOMAIN res
    IN  SelectSeq(SystemNames, Evaluated)

\* EvaluationSystem.compare_systems
CompareSystemsValue(res) ==
    LET overall_score == [name \in DOMAIN res |-> OverallScore(res[name])]
    IN  [ severity_accuracy |-> [name \in DOMAIN res |-> res[name].severity_accuracy],
          action_accuracy |-> [name \in DOMAIN res |-> res[name].action_accuracy],
          processing_time |-> [name \in DOMAIN res |-> res[name].avg_processing_time],
          overall_score |-> overall_score,
          best_system |-> MaxByKey(ResultsOrder(res), overall_score) ]

\* evaluate_all_systems, after the last system: "Compare systems".
CompareSystems ==
    /\ system_name = ""
    /\ pending = <<>>
    /\ comparison = None
    /\ comparison' = Some(CompareSystemsValue(results))
    /\ UNCHANGED <<evalVars, scoreVars, logVars, fileVars, agentVars, parseVars, uiVars>>

\* _save_results: the harness logger is saved (the results file is not kept).
SaveResults ==
    /\ system_name = ""
    /\ pending = <<>>
    /\ comparison # None
    /\ log_file = None
    /\ log_file' = Some(log_entries)
    /\ last_op' = [op |-> "save_log", value |-> None]
    /\ UNCHANGED <<log_entries, evalVars, scoreVars, extraVars>>

NextEval ==
    \/ StartSystem
    \/ EvaluateClaimRuleBased
    \/ EvaluateClaimOneShot
    \/ EvaluateClaimAgentic
    \/ FinishSystem
    \/ CompareSystems
    \/ SaveResults

SpecEval == InitEval /\ [][NextEval]_vars

\* The sum of the cells of a confusion matrix.
RECURSIVE SumSeq(_)
SumSeq(q) == IF q = <<>> THEN 0 ELSE Head(q) + SumSeq(Tail(q))

CellSum(cm) == SumSeq([i \in 1 .. Len(cm) |-> SumSeq(cm[i])])

\* C3: for every system evaluated, the cells of the severity confusion matrix
\* and of the action confusion matrix each add up to the batch size.
C3_ConfusionMatricesSumToN ==
    \A s \in DOMAIN results :
        /\ CellSum(results[s].severity_confusion_matrix) = Len(test_claims)
        /\ CellSum(results[s].action_confusion_matrix) = Len(test_claims)

\* C4: a process_claim call whose tool or backend raised returns a decision
\* with severity unknown, action escalate and success false.
C4_FailureBecomesFailSafeDecision ==
    \A k \in 1 .. Len(calls) :
        calls[k].failed =>
            /\ ~calls[k].raised
            /\ calls[k].result[1].severity = "unknown"
            /\ calls[k].result[1].action = "escalate"
            /\ "success" \in DOMAIN calls[k].result[1]
            /\ calls[k].result[1].success = FALSE

\* One prediction per claim gone through, in claim order, with the claim's id
\* and ground truth.
InClaimOrder(preds, n) ==
    /\ Len(preds) = n
    /\ \A k \in 1 .. n :
        /\ preds[k].claim_id = test_claims[k].claim_id
        /\ preds[k].true_severity = test_claims[k].ground_truth_severity
        /\ preds[k].true_action = test_claims[k].ground_truth_action

\* C5: a raising process_claim gets the fallback prediction (unknown, escalate,
\* time 0) and the loop goes on: the predictions hold one entry per claim gone
\* through, in claim order, and all N of them once the loop is over.
C5_OnePredictionPerClaim ==
    /\ system_name # "" => InClaimOrder(predictions, idx)
    /\ \A k \in 1 .. Len(calls) :
        calls[k].raised =>
            /\ predictions[k].predicted_severity = "unknown"
            /\ predictions[k].predicted_action = "escalate"
            /\ predictions[k].processing_time = 0
    /\ \A s \in DOMAIN results :
        InClaimOrder(results[s].predictions, Len(test_claims))

\* C5 witness: a finished loop in which the first claim's call raised and a
\* later claim was processed.
C5_Witness ==
    /\ "rule_based" \in DOMAIN results
    /\ Len(test_claims) >= 2
    /\ results["rule_based"].predictions[1].processing_time = 0
    /\ results["rule_based"].predictions[1].predicted_severity = "unknown"
    /\ results["rule_based"].predictions[2].processing_time > 0

\* The place of a system in the order of evaluation.
EvaluatedAt(name) == CHOOSE k \in 1 .. Len(SystemNames) : SystemNames[k] = name

\* a = b and a >= b on fractions.
FracEq(a, b) == a.num * b.den = b.num * a.den

FracGe(a, b) == a.num * b.den >= b.num * a.den

\* C20: compare_systems gives every strategy the composite 0.4 severity
\* accuracy + 0.4 action accuracy + 0.1 severity F1 + 0.1 action F1 and names
\* as best a strategy no other strategy beats; among several at the maximum
\* it names the one evaluated first.
C20_BestSystem ==
    comparison # None =>
        LET score == comparison[1].overall_score
            best == comparison[1].best_system
        IN  /\ DOMAIN score = DOMAIN results
            /\ \A s \in DOMAIN results :
                LET m == results[s]
                    unit == m.severity_f1.den
                IN  /\ m.action_f1.den = unit
                    /\ unit % m.severity_accuracy.den = 0
                    /\ unit % m.action_accuracy.den = 0
                    /\ score[s].num * 10 * unit =
                           score[s].den *
                               ( 4 * m.severity_accuracy.num * (unit \div m.severity_accuracy.den)
                                 + 4 * m.action_accuracy.num * (unit \div m.action_accuracy.den)
                                 + m.severity_f1.num + m.action_f1.num )
            /\ best \in DOMAIN results
            /\ \A s \in DOMAIN results : FracGe(score[best], score[s])
            /\ \A s \in DOMAIN results :
                FracEq(score[s], score[best]) => EvaluatedAt(best) <= EvaluatedAt(s)

\* C20 witness: the rule-based system scores below the two others, which
\* share the maximum, and the earlier of the two is named.
C20_Witness ==
    /\ comparison # None
    /\ FracGt(comparison[1].overall_score["one_shot_llm"],
              comparison[1].overall_score["rule_based"])
    /\ FracEq(comparison[1].overall_score["one_shot_llm"],
              comparison[1].overall_score["agentic"])
    /\ comparison[1].best_system = "one_shot_llm"

\* The entries of a sequence, as a set.
EntriesOf(entries) == {entries[i] : i \in 1 .. Len(entries)}

\* C25: once evaluate_all_systems has saved its results, the saved log file
\* holds every audit entry of the run: those of the agentic system's own
\* logger and those of the harness logger.
C25_EveryEntrySaved ==
    log_file # None =>
        /\ EntriesOf(log_entries) \subseteq EntriesOf(log_file[1])
        /\ EntriesOf(agent_log) \subseteq EntriesOf(log_file[1])

-----------------------------------------------------------------------------
(* SpecLog: one ClaimsLogger, its operations called in any order           *)

MaxLog == 3

LogClaimIds == {"CLM-1", "CLM-2"}

\* The names of the operations that log an entry.
LogOps ==
    {"log_tool_call", "log_agent_step", "log_human_override",
     "log_evaluation_result", "log_error"}

\* The entry type each of them writes.
EntryType(op) ==
    CASE op = "log_tool_call" -> "tool_call"
      [] op = "log_agent_step" -> "agent_step"
      [] op = "log_human_override" -> "human_override"
      [] op = "log_evaluation_result" -> "evaluation"
      [] op = "log_error" -> "error"

\* What the tool wrappers of agent.py hand to log_tool_call.
ToolCallInputs ==
    { [tool_name |-> "policy_lookup", inputs |-> [policy_id |-> "POL-100K"]],
      [tool_name |-> "triage_logger", inputs |-> [claim_id |-> "CLM-1"]] }

\* What agent.py hands to log_agent_step.
AgentSteps ==
    { [step_name |-> "claim_received", claim_id |-> "CLM-1"],
      [step_name |-> "claim_processed", claim_id |-> "CLM-1"],
      [step_name |-> "claim_processed", claim_id |-> "CLM-2"] }

\* The log_type and claim_id arguments of get_logs.
LogTypeArgs == {None, Some("agent_step"), Some("tool_call")}

ClaimIdArgs == {None, Some("CLM-1")}

\* The rest of a logging operation: it returns nothing (the log holds at
\* most MaxLog entries).
Logged(op) ==
    /\ Len(log_entries) < MaxLog
    /\ last_op' = [op |-> op, value |-> None]
    /\ UNCHANGED <<log_file, scoreVars, evalVars, extraVars>>

\* What an operation returns.
Returned(op, value) == [op |-> op, value |-> Some(value)]

\* The rest of an operation that only reads the log.
ReadOnly == UNCHANGED <<log_entries, log_file, scoreVars, evalVars, extraVars>>

\* ClaimsLogger.log_tool_call
LogToolCall ==
    /\ \E t \in ToolCallInputs :
        log_entries' = AddEntry(log_entries, ToolCallEntry(t.tool_name, t.inputs, <<>>))
    /\ Logged("log_tool_call")

\* ClaimsLogger.log_agent_step
LogAgentStep ==
    /\ \E a \in AgentSteps :
        log_entries' = AddEntry(log_entries,
                                AgentStepEntry(a.step_name, [claim_id |-> a.claim_id]))
    /\ Logged("log_agent_step")

\* ClaimsLogger.log_human_override
LogHumanOverride ==
    /\ \E c \in {"CLM-1"} :
        log_entries' = AddEntry(log_entries,
                                HumanOverrideEntry(c, [action |-> "approve"],
                                                   [action |-> "deny"], None))
    /\ Logged("log_human_override")

\* ClaimsLogger.log_evaluation_result
LogEvaluationResult ==
    /\ log_entries' = AddEntry(log_entries, EvaluationEntry("rule_based", <<>>))
    /\ Logged("log_evaluation_result")

\* ClaimsLogger.log_error
LogError ==
    /\ \E context \in {Some([claim_id |-> "CLM-1"])} :
        log_entries' = AddEntry(log_entries, ErrorEntry("processing", "failed", context))
    /\ Logged("log_error")

\* The claim_id test of get_logs.
MatchesClaim(log, claim_id) ==
    \/ Get(log, "claim_id") = Some(claim_id)
    \/ Get(IF "data" \in DOMAIN log THEN log.data ELSE <<>>, "claim_id") = Some(claim_id)

\* ClaimsLogger.get_logs(log_type, claim_id)
GetLogsValue(entries, log_type, claim_id) ==
    LET OfType(log) == Get(log, "type") = log_type
        OfClaim(log) == MatchesClaim(log, claim_id[1])
        logs1 == IF TruthyStr(log_type) THEN SelectSeq(entries, OfType) ELSE entries
    IN  IF TruthyStr(claim_id) THEN SelectSeq(logs1, OfClaim) ELSE logs1

GetLogs ==
    /\ \E log_type \in LogTypeArgs, claim_id \in ClaimIdArgs :
        last_op' = Returned("get_logs",
                            [ log_type |-> log_type, claim_id |-> claim_id,
                              logs |-> GetLogsValue(log_entries, log_type, claim_id) ])
    /\ ReadOnly

\* ClaimsLogger.get_tool_call_stats
GetToolCallStatsValue(entries) ==
    LET IsToolCall(log) == Get(log, "type") = Some("tool_call")
        tool_calls == SelectSeq(entries, IsToolCall)
        names == {tool_calls[k].tool_name : k \in 1 .. Len(tool_calls)}
    IN  [ total_calls |-> Len(tool_calls),
          by_tool |-> [n \in names |->
                          Cardinality({k \in 1 .. Len(tool_calls) :
                                          tool_calls[k].tool_name = n})] ]

GetToolCallStats ==
    /\ last_op' = Returned("get_tool_call_stats", GetToolCallStatsValue(log_entries))
    /\ ReadOnly

\* Slip: the division without the test for no decisions (a zero denominator
\* stands for the ZeroDivisionError).
GetOverrideRateUnguarded(entries) ==
    LET IsDecision(log) ==
            /\ Get(log, "type") = Some("agent_step")
            /\ Get(log, "step_name") = Some("claim_processed")
        IsOverride(log) == Get(log, "type") = Some("human_override")
    IN  [ num |-> Len(SelectSeq(entries, IsOverride)),
          den |-> Len(SelectSeq(entries, IsDecision)) ]

\* ClaimsLogger.get_override_rate, as the fraction num / den (0.0 is 0 / 1).
GetOverrideRateValue(entries) ==
    LET IsDecision(log) ==
            /\ Get(log, "type") = Some("agent_step")
            /\ Get(log, "step_name") = Some("claim_processed")
        IsOverride(log) == Get(log, "type") = Some("human_override")
        total_decisions == Len(SelectSeq(entries, IsDecision))
        overrides == Len(SelectSeq(entries, IsOverride))
    IN  IF total_decisions = 0 THEN [num |-> 0, den |-> 1]
        ELSE [num |-> overrides, den |-> total_decisions]

GetOverrideRate ==
    /\ last_op' = Returned("get_override_rate", GetOverrideRateValue(log_entries))
    /\ ReadOnly

\* Slip: the file opened for appending, the entries written behind what the
\* file holds.
SaveLogAppending ==
    /\ log_file' = Some((IF log_file = None THEN <<>> ELSE log_file[1]) \o log_entries)
    /\ last_op' = [op |-> "save_log", value |-> None]
    /\ UNCHANGED <<log_entries, scoreVars, evalVars, extraVars>>

\* ClaimsLogger.save_log: the file is rewritten with all the entries.
SaveLog ==
    /\ log_file' = Some(log_entries)
    /\ last_op' = [op |-> "save_log", value |-> None]
    /\ UNCHANGED <<log_entries, scoreVars, evalVars, extraVars>>

InitLog ==
    /\ IdleScore
    /\ IdleEval
    /\ IdleLog
    /\ IdleExtra

NextLog ==
    \/ LogToolCall
    \/ LogAgentStep
    \/ LogHumanOverride
    \/ LogEvaluationResult
    \/ LogError
    \/ GetLogs
    \/ GetToolCallStats
    \/ GetOverrideRate
    \/ SaveLog

SpecLog == InitLog /\ [][NextLog]_vars

\* C10: the log is append-only: each logging operation leaves the entries it
\* found in place and adds exactly one entry of its type at the end; a query,
\* a statistic or a save leaves the log as it is.
C10_AppendOnly ==
    [][ IF last_op'.op \in LogOps
        THEN /\ Len(log_entries') = Len(log_entries) + 1
             /\ SubSeq(log_entries', 1, Len(log_entries)) = log_entries
             /\ log_entries'[Len(log_entries')].type = EntryType(last_op'.op)
        ELSE log_entries' = log_entries ]_vars

\* C10 witness: entries were logged, saved, another entry was logged and the
\* log was queried.
C10_Witness ==
    /\ log_file # None
    /\ Len(log_entries) = Len(log_file[1]) + 1
    /\ Len(log_entries) >= 2
    /\ last_op.op = "get_logs"
    /\ Len(last_op.value[1].logs) >= 1

\* The positions of the log's completed decisions and of its human overrides.
DecisionPositions ==
    {k \in 1 .. Len(log_entries) :
        /\ log_entries[k].type = "agent_step"
        /\ log_entries[k].step_name = "claim_processed"}

OverridePositions ==
    {k \in 1 .. Len(log_entries) : log_entries[k].type = "human_override"}

\* C11: get_override_rate returns 0.0 when the log holds no completed decision,
\* however many overrides it holds, and overrides / completed decisions
\* otherwise.
C11_OverrideRate ==
    last_op.op = "get_override_rate" =>
        IF DecisionPositions = {}
        THEN last_op.value[1] = [num |-> 0, den |-> 1]
        ELSE last_op.value[1] = [ num |-> Cardinality(OverridePositions),
                                  den |-> Cardinality(DecisionPositions) ]

\* C11 witness: the rate was asked of a log with two overrides and no
\* completed decision, and 0.0 came back.
C11_Witness ==
    /\ last_op.op = "get_override_rate"
    /\ Cardinality(OverridePositions) = 2
    /\ DecisionPositions = {}
    /\ last_op.value[1] = [num |-> 0, den |-> 1]

\* C21: a flush is idempotent and duplicates nothing: save_log leaves in the
\* file exactly the entries in memory, no other operation touches the file,
\* the file is always a prefix of the entries in memory (no entry is in it
\* more often than it was logged), and a save_log right after a save_log
\* leaves the file as it is.
C21_FlushIdempotent ==
    [][ /\ last_op'.op = "save_log" => log_file' = Some(log_entries')
        /\ last_op'.op # "save_log" => log_file' = log_file
        /\ log_file' # None =>
               /\ Len(log_file'[1]) <= Len(log_entries')
               /\ log_file'[1] = SubSeq(log_entries', 1, Len(log_file'[1]))
        /\ (last_op.op = "save_log" /\ last_op'.op = "save_log") => log_file' = log_file
      ]_vars

\* C21 witness: a full log has been flushed and the file holds each of its
\* entries once.
C21_Witness ==
    /\ last_op.op = "save_log"
    /\ Len(log_entries) = MaxLog
    /\ log_file = Some(log_entries)

\* The entry was recorded for the claim: a human_override carries the claim id
\* itself, an agent_step in its data, a tool_call in its inputs, an error in
\* its context.
ConcernsClaim(log, claim_id) ==
    \/ Get(log, "claim_id") = Some(claim_id)
    \/ \E field \in {"data", "inputs", "context"} :
        /\ field \in DOMAIN log
        /\ Get(log[field], "claim_id") = Some(claim_id)

\* C19: get_logs returns, in insertion order, exactly the entries that match
\* every filter given: of the type asked for, and recorded for the claim asked
\* for, whatever their type.
C19_QueryReturnsMatchingEntries ==
    last_op.op = "get_logs" =>
        LET query == last_op.value[1]
            Matches(log) ==
                /\ query.log_type # None => log.type = query.log_type[1]
                /\ query.claim_id # None => ConcernsClaim(log, query.claim_id[1])
        IN  query.logs = SelectSeq(log_entries, Matches)

-----------------------------------------------------------------------------
(* SpecDecisions: two TriageLoggerTool instances (two agents, or two       *)
(* sessions) on the one decisions log file.  No lock is taken: each file   *)
(* operation of __init__ and of log_decision is a step of its own.         *)

MaxDecisions == 2

Writers == {1, 2}

\* The claim id of writer w's n-th decision.
DecisionClaimIds ==
    << <<"CLM-11", "CLM-12", "CLM-13", "CLM-14">>,
       <<"CLM-21", "CLM-22", "CLM-23", "CLM-24">> >>

\* log_decision's decision_entry (timestamp, rationale and metadata left out).
DecisionEntry(claim_id) ==
    [claim_id |-> claim_id, severity |-> "high", action |-> "investigate"]

\* A file holding the JSON text of data.
JsonFile(data) == Some([json |-> TRUE, data |-> data])

\* A file just opened with mode 'w', or one whose text is no JSON document.
NoJsonFile == Some([json |-> FALSE, data |-> <<>>])

\* "try: json.load(f) except (FileNotFoundError, JSONDecodeError): []"
ReadLog(file) ==
    IF file = None \/ ~file[1].json THEN <<>> ELSE file[1].data

\* What the file holds after a writer that opened it with mode 'w' dumps data
\* from offset 0 and closes: its text, unless a longer text was written since
\* the file was opened, whose tail then stays behind the new text.
DumpInto(file, data) ==
    IF file # None /\ file[1].json /\ Len(file[1].data) > Len(data)
    THEN NoJsonFile
    ELSE JsonFile(data)

NewWriter == [pc |-> "new", log_data |-> <<>>, calls |-> 0]

InitDecisions ==
    /\ IdleScore
    /\ IdleEval
    /\ IdleLog
    /\ IdleAgent
    /\ IdleParse
    /\ comparison = None
    /\ IdleUI
    /\ \E before \in {<<>>, <<"CLM-0">>} :
        /\ decisions_log = IF before = <<>> THEN None
                           ELSE JsonFile(<<DecisionEntry(before[1])>>)
        /\ logged = before
    /\ writers = [w \in Writers |-> NewWriter]

DecisionsUnchanged == UNCHANGED <<scoreVars, evalVars, logVars, agentVars, parseVars, comparison, uiVars>>

\* TriageLoggerTool.__init__ / _initialize_log: "if not self.log_file.exists()"
CheckLogExists(w) ==
    /\ writers[w].pc = "new"
    /\ writers' = [writers EXCEPT ![w].pc =
                      IF decisions_log = None THEN "init_open" ELSE "idle"]
    /\ UNCHANGED <<decisions_log, logged>>
    /\ DecisionsUnchanged

\* _initialize_log: open(self.log_file, 'w')
InitializeOpen(w) ==
    /\ writers[w].pc = "init_open"
    /\ decisions_log' = NoJsonFile
    /\ writers' = [writers EXCEPT ![w].pc = "init_dump"]
    /\ UNCHANGED logged
    /\ DecisionsUnchanged

\* _initialize_log: json.dump([], f) and the close
InitializeDump(w) ==
    /\ writers[w].pc = "init_dump"
    /\ decisions_log' = DumpInto(decisions_log, <<>>)
    /\ writers' = [writers EXCEPT ![w].pc = "idle"]
    /\ UNCHANGED logged
    /\ DecisionsUnchanged

\* log_decision: "Read existing log" and "Append new entry"
LogDecisionRead(w) ==
    /\ writers[w].pc = "idle"
    /\ writers[w].calls < MaxDecisions
    /\ writers' = [writers EXCEPT
           ![w].pc = "open",
           ![w].log_data =
               Append(ReadLog(decisions_log),
                      DecisionEntry(DecisionClaimIds[w][writers[w].calls + 1]))]
    /\ UNCHANGED <<decisions_log, logged>>
    /\ DecisionsUnchanged

\* log_decision: "Write back", open(self.log_file, 'w')
LogDecisionOpen(w) ==
    /\ writers[w].pc = "open"
    /\ decisions_log' = NoJsonFile
    /\ writers' = [writers EXCEPT ![w].pc = "dump"]
    /\ UNCHANGED logged
    /\ DecisionsUnchanged

\* log_decision: json.dump(log_data, f), the close and the return
LogDecisionDump(w) ==
    /\ writers[w].pc = "dump"
    /\ decisions_log' = DumpInto(decisions_log, writers[w].log_data)
    /\ writers' = [writers EXCEPT ![w].pc = "idle",
                                  ![w].calls = @ + 1,
                                  ![w].log_data = <<>>]
    /\ logged' = Append(logged, DecisionClaimIds[w][writers[w].calls + 1])
    /\ DecisionsUnchanged

NextDecisions ==
    \E w \in Writers :
        \/ CheckLogExists(w)
        \/ InitializeOpen(w)
        \/ InitializeDump(w)
        \/ LogDecisionRead(w)
        \/ LogDecisionOpen(w)
        \/ LogDecisionDump(w)

SpecDecisions == InitDecisions /\ [][NextDecisions]_vars

\* C12: overlapping log_decision calls lose nothing: whenever no call is under
\* way, the file is a JSON list that holds the entry of every call that has
\* returned and every entry that was in the file before.
C12_NoLostDecision ==
    (writers # <<>> /\ \A w \in Writers : writers[w].pc = "idle") =>
        /\ decisions_log # None
        /\ decisions_log[1].json
        /\ \A k \in 1 .. Len(logged) :
            \E j \in 1 .. Len(decisions_log[1].data) :
                decisions_log[1].data[j].claim_id = logged[k]

-----------------------------------------------------------------------------
(* SpecAgent: InsuranceClaimsAgent.process_claim on one claim, the agent   *)
(* loop taken one backend turn at a time.  The loop is the runnable that   *)
(* create_agent(model, tools, system_prompt) returns: the backend either   *)
(* asks for a tool (one round: the wrapper runs and its result goes back   *)
(* to the backend), or answers with its final text, or the call raises.    *)
(* The model follows a run up to MaxRounds rounds; the backend asks        *)
(* policy_lookup for the claim's own policy.                               *)

MAX_ITERATIONS == 5

MaxRounds == 6

\* Whether the backend's JSON argument of a tool parses into its parameters.
ParamsOk == {TRUE, FALSE}

FinalOutputs == {OutputCriticalEscalate, OutputLowerApprove}

InitAgent ==
    /\ risk_factors = RISK_FACTORS
    /\ config = CONFIG
    /\ policies_df = PoliciesDf
    /\ claim \in EvalClaims
    /\ risk_result = None
    /\ risk_score = None
    /\ decision = None
    /\ prev = NoPrev
    /\ IdleEval
    /\ IdleLog
    /\ IdleAgent
    /\ IdleParse
    /\ comparison = None
    /\ IdleUI
    /\ decisions_log = JsonFile(<<>>)
    /\ writers = <<>>
    /\ logged = <<>>

AgentUnchanged == UNCHANGED <<scoreVars, logVars, parseVars, comparison, uiVars, writers, test_claims, pending, system_name, idx, predictions, processing_times, calls, results>>

\* process_claim up to the invoke: log_agent_step("claim_received", claim).
ReceiveClaim ==
    /\ agent_pc = "idle"
    /\ agent_result = None
    /\ agent_log' = AddEntry(agent_log, AgentStepEntry("claim_received", claim))
    /\ agent_pc' = "invoke"
    /\ rounds' = 0
    /\ UNCHANGED <<agent_result, decisions_log, logged>>
    /\ AgentUnchanged

\* One round: the backend asks for policy_lookup; policy_lookup_wrapper.
CallPolicyLookup ==
    /\ agent_pc = "invoke"
    /\ rounds < MaxRounds
    /\ agent_log' = AddEntry(agent_log,
                              ToolCallEntry("policy_lookup",
                                            [policy_id |-> claim.policy_id],
                                            Lookup(policies_df, claim.policy_id)))
    /\ rounds' = rounds + 1
    /\ UNCHANGED <<agent_pc, agent_result, decisions_log, logged>>
    /\ AgentUnchanged

\* One round: the backend asks for risk_scoring; risk_scoring_wrapper (params
\* that do not parse give an error text and no log entry).
CallRiskScoring ==
    /\ agent_pc = "invoke"
    /\ rounds < MaxRounds
    /\ \E ok \in ParamsOk :
        agent_log' =
            IF ok
            THEN AddEntry(agent_log,
                          ToolCallEntry("risk_scoring",
                                        [claim_amount |-> claim.claim_amount],
                                        RuleRiskResult(risk_factors, config, policies_df, claim)))
            ELSE agent_log
    /\ rounds' = rounds + 1
    /\ UNCHANGED <<agent_pc, agent_result, decisions_log, logged>>
    /\ AgentUnchanged

\* One round: the backend asks for triage_logger; triage_logger_wrapper and
\* TriageLoggerTool.log_decision.
CallTriageLogger ==
    /\ agent_pc = "invoke"
    /\ rounds < MaxRounds
    /\ \E ok \in ParamsOk :
        IF ok
        THEN /\ decisions_log' = JsonFile(Append(ReadLog(decisions_log),
                                                 DecisionEntry(claim.claim_id)))
             /\ logged' = Append(logged, claim.claim_id)
             /\ agent_log' = AddEntry(agent_log,
                                      ToolCallEntry("triage_logger",
                                                    [claim_id |-> claim.claim_id],
                                                    [status |-> "logged"]))
        ELSE UNCHANGED <<decisions_log, logged, agent_log>>
    /\ rounds' = rounds + 1
    /\ UNCHANGED <<agent_pc, agent_result>>
    /\ AgentUnchanged

\* The backend's final text: parsed, logged as claim_processed, returned.
FinalAnswer ==
    /\ agent_pc = "invoke"
    /\ \E text \in FinalOutputs :
        LET run == [raises |-> FALSE, output |-> text]
            result == AgentProcessClaim(claim, run).result[1]
        IN  /\ agent_result' = Some(result)
            /\ agent_log' = AddEntry(agent_log,
                   AgentStepEntry("claim_processed",
                                  [ claim_id |-> claim.claim_id,
                                    severity |-> result.severity,
                                    action |-> result.action,
                                    steps |-> 2 * rounds + 2 ]))
    /\ agent_pc' = "done"
    /\ UNCHANGED <<rounds, decisions_log, logged>>
    /\ AgentUnchanged

\* Slip: the except branch returns the fail-safe decision without logging.
InvokeRaisesUnlogged ==
    /\ agent_pc = "invoke"
    /\ agent_result' = Some(AgentProcessClaim(claim, [raises |-> TRUE, output |-> <<>>]).result[1])
    /\ agent_pc' = "done"
    /\ UNCHANGED <<agent_log, rounds, decisions_log, logged>>
    /\ AgentUnchanged

\* The invoke raises: the except branch logs claim_error and returns the
\* fail-safe decision.
InvokeRaises ==
    /\ agent_pc = "invoke"
    /\ agent_result' = Some(AgentProcessClaim(claim, [raises |-> TRUE, output |-> <<>>]).result[1])
    /\ agent_log' = AddEntry(agent_log,
           AgentStepEntry("claim_error",
                          [claim_id |-> claim.claim_id, error |-> ErrorMessage]))
    /\ agent_pc' = "done"
    /\ UNCHANGED <<rounds, decisions_log, logged>>
    /\ AgentUnchanged

NextAgent ==
    \/ ReceiveClaim
    \/ CallPolicyLookup
    \/ CallRiskScoring
    \/ CallTriageLogger
    \/ FinalAnswer
    \/ InvokeRaises

SpecAgent == InitAgent /\ [][NextAgent]_vars

\* The positions of the agent_step entries of the given step names.
StepPositions(entries, names) ==
    {i \in 1 .. Len(entries) :
        entries[i].type = "agent_step" /\ entries[i].step_name \in names}

TerminalSteps == {"claim_processed", "claim_error"}

C13_RoundsBounded == rounds <= MAX_ITERATIONS

-----------------------------------------------------------------------------
(* SpecParse: the label extraction of the two inference-based systems on   *)
(* any backend text of up to MaxTokens pieces                              *)

MaxTokens == 3

\* Pieces of backend text: labels in several spellings, words that hold a
\* label, words that hold none.
OutputTokens ==
    { <<"C", "r", "i", "t", "i", "c", "a", "l">>,
      <<"l", "o", "w">>,
      <<"H", "I", "G", "H">>,
      <<"m", "e", "d", "i", "u", "m">>,
      <<"E", "s", "c", "a", "l", "a", "t", "e", "d">>,
      <<"a", "p", "p", "r", "o", "v", "e">>,
      <<"D", "E", "N", "Y">>,
      <<"i", "n", "v", "e", "s", "t", "i", "g", "a", "t", "e">>,
      <<" ", "n", "o", "t", " ">>,
      <<"u", "n", "c", "l", "e", "a", "r">> }

RECURSIVE Concat(_)
Concat(pieces) == IF pieces = <<>> THEN <<>> ELSE Head(pieces) \o Concat(Tail(pieces))

OutputTexts ==
    {Concat(pieces) : pieces \in UNION {[1 .. n -> OutputTokens] : n \in 0 .. MaxTokens}}

InitParse ==
    /\ IdleScore
    /\ IdleEval
    /\ IdleLog
    /\ IdleFile
    /\ IdleAgent
    /\ comparison = None
    /\ IdleUI
    /\ response \in OutputTexts
    /\ extracted = None

\* Both parsers are handed the backend's text.
ParseOutput ==
    /\ extracted = None
    /\ extracted' = Some([ agent |-> ParseDecision(response),
                           one_shot |-> ParseResponse(response) ])
    /\ UNCHANGED <<response, scoreVars, evalVars, logVars, fileVars, agentVars, comparison, uiVars>>

NextParse == ParseOutput

SpecParse == InitParse /\ [][NextParse]_vars

\* The label occurs in the text, whatever the case of the text's letters.
OccursIn(label, text) ==
    \E n \in 1 .. Len(text) :
        \A k \in 1 .. Len(CharsOf[label]) :
            /\ n + k - 1 <= Len(text)
            /\ LowerChar(text[n + k - 1]) = CharsOf[label][k]

\* The first label of the enumeration that occurs in the text, else default.
FirstLabel(labels, text, default) ==
    LET occurring == {k \in 1 .. Len(labels) : OccursIn(labels[k], text)}
    IN  IF occurring = {} THEN default
        ELSE labels[CHOOSE k \in occurring : \A m \in occurring : k <= m]

\* C14: both parsers return the first severity label of [low, medium, high,
\* critical] and the first action label of [approve, investigate, deny,
\* escalate] that occurs in the lower-cased text, wherever the labels stand,
\* medium / investigate when none occurs; they agree and stay inside the two
\* vocabularies.
C14_LabelExtraction ==
    extracted # None =>
        /\ extracted[1].agent.severity = FirstLabel(SEVERITY_LEVELS, response, "medium")
        /\ extracted[1].agent.action = FirstLabel(ACTION_LABELS, response, "investigate")
        /\ extracted[1].one_shot = extracted[1].agent
        /\ extracted[1].agent.severity \in {"low", "medium", "high", "critical"}
        /\ extracted[1].agent.action \in {"approve", "investigate", "deny", "escalate"}

\* C14 witness: "Critical" and "Escalated" stand in front of "low" and
\* "approve" and the labels earlier in the enumeration are returned.
C14_Witness ==
    /\ extracted # None
    /\ Len(response) >= 8
    /\ Lower(SubSeq(response, 1, 8)) = CharsOf["critical"]
    /\ OccursIn("low", response)
    /\ extracted[1].agent.severity = "low"
    /\ extracted[1].one_shot.severity = "low"

-----------------------------------------------------------------------------
(* SpecLookup: RuleBasedSystem.process_claim with a policy table that may  *)
(* be empty (policies file missing) or lack the claim's policy             *)

\* pd.DataFrame(): the table load_policies returns when the file is missing.
EmptyPoliciesDf == [p \in {} |-> 0]

LookupClaims ==
    [ claim_id : {"CLM-1"},
      policy_id : PolicyIds,
      claim_amount : Amounts,
      prior_claims : {0, 3},
      policy_tenure_years : {0, 5},
      incident_to_report_days : {5, 45},
      claimant_age : {None, Some(24)},
      location : {None, Some("New York, NY")} ]

InitLookup ==
    /\ risk_factors = RISK_FACTORS
    /\ config = CONFIG
    /\ policies_df \in {PoliciesDf, EmptyPoliciesDf}
    /\ claim \in LookupClaims
    /\ risk_result = None
    /\ risk_score = None
    /\ decision = None
    /\ prev = NoPrev
    /\ IdleEval
    /\ IdleLog
    /\ IdleExtra

NextLookup == ProcessClaim

SpecLookup == InitLookup /\ [][NextLookup]_vars

\* C18: when the table is empty or lacks the claim's policy, the decision
\* process_claim returns is well formed, the coverage-limit rule is skipped,
\* and the assessment is the one of the same claim with no coverage limit: no
\* input taken from the claim is replaced.
C18_LookupMissSkipsCoverageRule ==
    (decision # None /\ claim.policy_id \notin DOMAIN policies_df) =>
        /\ "claim_near_coverage_limit" \notin ReturnedFactors
        /\ risk_result[1] =
               CalculateRiskScore(RISK_FACTORS, CONFIG, claim.claim_amount,
                                  claim.prior_claims, claim.policy_tenure_years,
                                  claim.incident_to_report_days, None,
                                  claim.claimant_age, claim.location)
        /\ decision[1].risk_score = risk_result[1].risk_score
        /\ decision[1].severity \in {"low", "medium", "high", "critical"}
        /\ decision[1].action \in {"approve", "investigate", "deny", "escalate"}

\* C18 witness: a claim of 80,001 with three prior claims on a policy the
\* table does not hold: assessed on its own inputs, without the coverage rule.
C18_Witness ==
    /\ decision # None
    /\ policies_df = PoliciesDf
    /\ claim.policy_id = "POL-404"
    /\ claim.claim_amount = 80001
    /\ claim.prior_claims = 3
    /\ "multiple_prior_claims" \in ReturnedFactors
    /\ "claim_near_coverage_limit" \notin ReturnedFactors
    /\ decision[1].action = "escalate"

-----------------------------------------------------------------------------
(* SpecUI: one browser session of streamlit_app.py.  Each action is one    *)
(* script run: the widget the user touched and everything main() does in   *)
(* that run.  The session's ClaimsLogger is log_entries; the logger of the *)
(* InsuranceClaimsAgent held in the session is agent_log.  Processing      *)
(* times and timestamps are left out.                                      *)

MaxProcessed == 2

\* The text typed into "Reason for Override" (empty, blank, a reason).
OverrideReasons == {"", " ", "adjuster review"}

\* What the user picks in the two boxes of the override form.
OverrideChoices == {[severity |-> "critical", action |-> "deny"]}

\* What the strategy's surroundings do in a call made from the UI.
UiRuns == {run \in AgentRuns : run.tool_calls = <<>>}

\* The claim the user picks in "Choose Claim ID".
UiClaims == {c \in EvalClaims : c.claim_id = "CLM-2"}

\* The stripped text is not empty.
StripTruthy(text) == text \notin {"", " "}

\* load_agent: the class of the strategy object it builds.
LoadAgent(selection) ==
    CASE selection = "Agentic System" -> Some("InsuranceClaimsAgent")
      [] selection = "Rule-Based" -> Some("RuleBasedSystem")
      [] selection = "One-Shot LLM" -> Some("OneShotLLMSystem")
      [] OTHER -> None

\* st.session_state.agent.process_claim(claim_dict), by the class of the object.
StrategyCall(class, rf, cfg, df, c, run) ==
    CASE class = "InsuranceClaimsAgent" -> AgentProcessClaim(c, run)
      [] class = "RuleBasedSystem" -> RuleProcessClaim(rf, cfg, df, c, run)
      [] class = "OneShotLLMSystem" -> OneShotProcessClaim(c, run)

\* PerformanceTracker.record_claim_processing
RecordClaimProcessing(metrics, claim_id, result) ==
    [metrics EXCEPT !.total_claims = @ + 1,
                    !.decisions = Append(@, [ claim_id |-> claim_id,
                                              severity |-> result.severity,
                                              action |-> result.action ])]

\* PerformanceTracker.record_override
RecordOverride(metrics) == [metrics EXCEPT !.overrides = @ + 1]

\* PerformanceTracker.get_summary; override_rate as the fraction num / den.
GetSummary(metrics) ==
    [ total_claims_processed |-> metrics.total_claims,
      total_overrides |-> metrics.overrides,
      override_rate |-> [ num |-> metrics.overrides,
                          den |-> IF metrics.total_claims > 1
                                  THEN metrics.total_claims ELSE 1 ] ]

\* The two index() calls of the override form: list.index raises ValueError
\* on a value the list does not hold, and the script run ends there.
OverrideFormRenders(result) ==
    /\ result.severity \in EntriesOf(SEVERITY_LEVELS)
    /\ result.action \in EntriesOf(ACTION_LABELS)

InitUI ==
    /\ IdleScore
    /\ IdleEval
    /\ IdleLog
    /\ IdleExtra

UiUnchanged == UNCHANGED <<scoreVars, fileVars, agentVars, parseVars, comparison, log_file, last_op, test_claims, pending, system_name, idx, predictions, processing_times, calls, results>>

\* The user picks another entry of "Select System".
SelectSystem ==
    /\ \E k \in 1 .. Len(SystemTypes) :
        /\ SystemTypes[k] # system_type
        /\ system_type' = SystemTypes[k]
    /\ UNCHANGED <<agent, current_decision, decision_history, performance_tracker,
                   show_override_form, log_entries, agent_log>>
    /\ UiUnchanged

\* "Reload Agent": a new strategy object (a new agent has a new logger).
ReloadAgent ==
    /\ agent' = LoadAgent(system_type)
    /\ agent_log' = <<>>
    /\ UNCHANGED <<system_type, current_decision, decision_history,
                   performance_tracker, show_override_form, log_entries>>
    /\ UiUnchanged

\* "Process Claim": process_claim(claim_dict, system_type) and, when it
\* returns a result, current_decision is set; an exception leaving the
\* strategy is shown and nothing is recorded.
UiProcessClaim ==
    /\ performance_tracker.total_claims < MaxProcessed
    /\ \E c \in UiClaims, run \in UiRuns :
        LET loaded == IF agent = None THEN LoadAgent(system_type) ELSE agent
            call == StrategyCall(loaded[1], risk_factors, config, policies_df, c, run)
        IN  /\ agent' = loaded
            /\ agent_log' = IF loaded[1] = "InsuranceClaimsAgent"
                            THEN AgentLogAfter(agent_log, c, run)
                            ELSE agent_log
            /\ IF call.raised
               THEN UNCHANGED <<current_decision, performance_tracker>>
               ELSE LET result == call.result[1] @@ [system_type |-> system_type]
                    IN  /\ performance_tracker' =
                               RecordClaimProcessing(performance_tracker, c.claim_id, result)
                        /\ current_decision' = Some([decision |-> result, claim |-> c])
    /\ UNCHANGED <<system_type, decision_history, show_override_form, log_entries>>
    /\ UiUnchanged

\* Slip: the accepted decision stays the current decision.
HandleAcceptDecisionKeepsCurrent ==
    /\ current_decision # None
    /\ Len(decision_history) < MaxProcessed + 1
    /\ LET result == current_decision[1].decision
           c == current_decision[1].claim
       IN  /\ decision_history' =
                  Append(decision_history,
                         [ claim_id |-> c.claim_id, decision |-> result,
                           status |-> "accepted",
                           ground_truth_severity |-> c.ground_truth_severity,
                           ground_truth_action |-> c.ground_truth_action ])
           /\ log_entries' =
                  AddEntry(log_entries,
                           AgentStepEntry("decision_accepted",
                                          [ claim_id |-> c.claim_id,
                                            severity |-> result.severity,
                                            action |-> result.action ]))
    /\ UNCHANGED <<current_decision, system_type, agent, performance_tracker,
                   show_override_form, agent_log>>
    /\ UiUnchanged

\* "Accept Decision": handle_accept_decision, then the rerun.
HandleAcceptDecision ==
    /\ current_decision # None
    /\ LET result == current_decision[1].decision
           c == current_decision[1].claim
       IN  /\ decision_history' =
                  Append(decision_history,
                         [ claim_id |-> c.claim_id, decision |-> result,
                           status |-> "accepted",
                           ground_truth_severity |-> c.ground_truth_severity,
                           ground_truth_action |-> c.ground_truth_action ])
           /\ log_entries' =
                  AddEntry(log_entries,
                           AgentStepEntry("decision_accepted",
                                          [ claim_id |-> c.claim_id,
                                            severity |-> result.severity,
                                            action |-> result.action ]))
    /\ current_decision' = None
    /\ UNCHANGED <<system_type, agent, performance_tracker, show_override_form,
                   agent_log>>
    /\ UiUnchanged

\* "Override Decision": the form is asked for.
ShowOverrideForm ==
    /\ current_decision # None
    /\ ~show_override_form
    /\ show_override_form' = TRUE
    /\ UNCHANGED <<system_type, agent, current_decision, decision_history,
                   performance_tracker, log_entries, agent_log>>
    /\ UiUnchanged

\* "Submit Override" on a rendered form: handle_override_decision when the
\* reason is not blank, an error message and nothing else when it is.
HandleOverrideDecision ==
    /\ current_decision # None
    /\ show_override_form
    /\ OverrideFormRenders(current_decision[1].decision)
    /\ \E choice \in OverrideChoices, reason \in OverrideReasons :
        LET result == current_decision[1].decision
            c == current_decision[1].claim
            override_decision == [ severity |-> choice.severity,
                                   action |-> choice.action,
                                   rationale |-> reason ]
        IN  IF StripTruthy(reason)
            THEN /\ decision_history' =
                        Append(decision_history,
                               [ claim_id |-> c.claim_id,
                                 original_decision |-> result,
                                 override_decision |-> override_decision,
                                 status |-> "overridden",
                                 ground_truth_severity |-> c.ground_truth_severity,
                                 ground_truth_action |-> c.ground_truth_action ])
                 /\ log_entries' =
                        AddEntry(log_entries,
                                 HumanOverrideEntry(c.claim_id, result,
                                                    override_decision, reason))
                 /\ performance_tracker' = RecordOverride(performance_tracker)
                 /\ current_decision' = None
                 /\ show_override_form' = FALSE
            ELSE UNCHANGED <<decision_history, log_entries, performance_tracker,
                             current_decision, show_override_form>>
    /\ UNCHANGED <<system_type, agent, agent_log>>
    /\ UiUnchanged

NextUI ==
    \/ SelectSystem
    \/ ReloadAgent
    \/ UiProcessClaim
    \/ HandleAcceptDecision
    \/ ShowOverrideForm
    \/ HandleOverrideDecision

SpecUI == InitUI /\ [][NextUI]_vars

\* The label of "Select System" that load_agent turns into the given class.
LabelOf(class) ==
    CHOOSE k \in EntriesOf(SystemTypes) : LoadAgent(k) = Some(class)

\* C28: the system_type recorded on a decision names the strategy that
\* produced it: whenever a claim has been processed, the system_type of the
\* new current decision is the label of the strategy object held in the
\* session, whose process_claim was run.
C28_SystemTypeNamesStrategy ==
    [][ performance_tracker'.total_claims # performance_tracker.total_claims
            => current_decision'[1].decision.system_type = LabelOf(agent'[1]) ]_vars

\* The number of decisions of the history with the given status.
CountStatus(status) ==
    Cardinality({k \in 1 .. Len(decision_history) : decision_history[k].status = status})

\* C29: a processed decision is accepted or overridden at most once: the
\* recorded overrides are the overridden decisions of the history, overrides
\* plus accepted decisions are at most the claims processed, and get_summary
\* reports an override rate between 0 and 1, 0 when nothing was processed.
C29_AtMostOncePerDecision ==
    LET summary == GetSummary(performance_tracker)
        rate == summary.override_rate
    IN  /\ summary.total_overrides = CountStatus("overridden")
        /\ summary.total_overrides + CountStatus("accepted")
               <= summary.total_claims_processed
        /\ rate.den > 0
        /\ 0 <= rate.num
        /\ rate.num <= rate.den
        /\ summary.total_claims_processed = 0 => rate.num = 0

\* C29 witness: two claims processed, one decision accepted and the other
\* overridden: the override rate is one half.
C29_Witness ==
    /\ performance_tracker.total_claims = 2
    /\ CountStatus("accepted") = 1
    /\ CountStatus("overridden") = 1
    /\ GetSummary(performance_tracker).override_rate = [num |-> 1, den |-> 2]
    /\ current_decision = None

\* C30: every decision the UI offers for override has a severity of
\* SEVERITY_LEVELS and an action of ACTIONS, the fail-safe decision of a
\* failed strategy included, so the override form renders for it.
C30_OfferedDecisionRenders ==
    current_decision # None =>
        /\ current_decision[1].decision.severity \in EntriesOf(SEVERITY_LEVELS)
        /\ current_decision[1].decision.action \in EntriesOf(ACTION_LABELS)
        /\ OverrideFormRenders(current_decision[1].decision)

====
